---- MODULE Spec2Model ----
(***************************************************************************)
(* Model of the action dispatcher of the motion controller                 *)
(* (src/src/actions/action_dispatcher.py) together with the action         *)
(* executors it drives (keyboard, mouse, gamepad) and the input-simulation *)
(* backend those executors call.                                           *)
(*                                                                         *)
(* Trigger values are floats in [0,1]; they are modelled as integers in    *)
(* thousandths (value 12 is 0.012).                                        *)
(***************************************************************************)
EXTENDS Integers, Sequences, FiniteSets, TLC

(***************************************************************************)
(* Bounds of the model.                                                    *)
(***************************************************************************)
\* Trigger values range over 0, 0.006, ..., 0.006 * MaxValue.
MaxValue == 2

\* Dispatch is not explored beyond this many outstanding executes per name.
MaxOutstanding == 2

(***************************************************************************)
(* Program constants.                                                      *)
(***************************************************************************)
\* abs(existing_value - trigger_value) > 0.01, in thousandths.
Threshold == 10

\* int(self.value * trigger_value * 32767): the stick range of the gamepad.
StickRange == 32767

\* int(self.value * trigger_value * 255): the trigger range of the gamepad.
TriggerRange == 255

\* The mouse move factor: int((self.x - 0.5) * 20 * trigger_value).
MoveFactor == 20

Values == {6 * i : i \in 0..MaxValue}

(***************************************************************************)
(* The loaded gestures: one action instance per gesture definition.        *)
(***************************************************************************)
Names == {"g1", "g2"}

Actions == {"a1", "a2"}

\* The gesture definitions a profile can load, in load order; a profile loads
\* a prefix of them.
Definitions == << [name |-> "g1", action |-> "a1"], [name |-> "g2", action |-> "a2"] >>

\* The action variants an instance can be configured as ("pad_stick_y", the
\* other axis of the gamepad's left stick, is configured only beside
\* "pad_stick").  "custom" stands
\* for any further BaseAction subclass registered with ActionRegistry.register:
\* its execute, release and reset_state may each raise.
Kinds ==
    {"kb_press", "kb_hold", "mouse_click", "mouse_hold", "mouse_move",
     "pad_button", "pad_stick", "pad_trigger", "custom"}

\* get_name() of each variant.
get_name(kind) ==
    CASE kind \in {"kb_press", "kb_hold"} -> "keyboard"
      [] kind \in {"mouse_click", "mouse_hold", "mouse_move"} -> "mouse"
      [] kind \in {"pad_button", "pad_stick", "pad_stick_y", "pad_trigger"} -> "gamepad"
      [] OTHER -> "custom"

\* KeyboardAction.mode
mode(kind) == IF kind = "kb_press" THEN "press" ELSE "hold"

\* MouseAction.action_type
action_type(kind) ==
    CASE kind = "mouse_click" -> "click"
      [] kind = "mouse_hold" -> "hold"
      [] OTHER -> "move"

\* GamepadAction.control
control(kind) ==
    CASE kind = "pad_button" -> "button_a"
      [] kind = "pad_stick" -> "left_stick_x"
      [] kind = "pad_stick_y" -> "left_stick_y"
      [] OTHER -> "left_trigger"

\* "stick" in control / "trigger" in control
ControlContains(c, word) ==
    CASE word = "stick" -> c \in {"left_stick_x", "left_stick_y"}
      [] word = "trigger" -> c = "left_trigger"
      [] OTHER -> FALSE

\* hasattr(action, 'reset_state'): only KeyboardAction defines it among the
\* shipped variants.
HasResetState(kind) == get_name(kind) \in {"keyboard", "custom"}

\* The backend calls of a variant that can raise, by call name.
FaultPoints(kind) ==
    CASE kind = "kb_press" -> {"kb.press", "kb.release"}
      [] kind = "kb_hold" -> {"kb.press", "kb.release"}
      [] kind = "mouse_click" -> {"mouse.click"}
      [] kind = "mouse_hold" -> {"mouse.press", "mouse.release"}
      [] kind = "mouse_move" -> {"mouse.move"}
      [] kind \in {"pad_button", "pad_stick", "pad_stick_y", "pad_trigger"} -> {"pad.update"}
      [] OTHER -> {"custom.execute", "custom.release", "custom.reset_state"}

NoFault == "none"

(***************************************************************************)
(* State of an action instance and of the backend.                         *)
(***************************************************************************)
\* BaseAction.__init__: is_executing = False; _was_active is not yet set.
InitActionState == [is_executing |-> FALSE, was_active |-> "unset"]

PadNeutral == [buttons |-> {}, lx |-> 0, ly |-> 0, lt |-> 0]

\* keys: keys down; buttons: mouse buttons down; pad_report: the report the
\* shared gamepad holds; pad_device: the report last sent by update().
InitBackend ==
    [keys |-> {}, buttons |-> {}, pad_report |-> PadNeutral, pad_device |-> PadNeutral]

Event(op, a, arg, raised) == [op |-> op, gesture |-> "", action |-> a, arg |-> arg, raised |-> raised]

Outcome(s, b, ev, raised) == [st |-> s, backend |-> b, events |-> ev, raised |-> raised]

Scale(v, range) == (v * range) \div 1000

(***************************************************************************)
(* KeyboardAction (key "space").  Every backend call sits inside the       *)
(* method's own try/except, so neither execute nor release raises.         *)
(***************************************************************************)
KeyboardExecute(kind, a, s, b, v, f) ==
    IF mode(kind) = "press"
    THEN LET s1 == IF s.was_active = "unset" THEN [s EXCEPT !.was_active = "false"] ELSE s
         IN  IF s1.was_active = "true"
             THEN Outcome(s1, b, << >>, FALSE)
             ELSE IF f = "kb.press"
             THEN Outcome(s1, b, << Event("kb.press", a, 0, TRUE) >>, FALSE)
             ELSE IF f = "kb.release"
             THEN Outcome(s1, [b EXCEPT !.keys = @ \cup {"space"}],
                          << Event("kb.press", a, 0, FALSE), Event("kb.release", a, 0, TRUE) >>,
                          FALSE)
             ELSE Outcome([is_executing |-> TRUE, was_active |-> "true"],
                          [b EXCEPT !.keys = @ \ {"space"}],
                          << Event("kb.press", a, 0, FALSE), Event("kb.release", a, 0, FALSE) >>,
                          FALSE)
    ELSE IF s.is_executing
         THEN Outcome(s, b, << >>, FALSE)
         ELSE IF f = "kb.press"
         THEN Outcome(s, b, << Event("kb.press", a, 0, TRUE) >>, FALSE)
         ELSE Outcome([is_executing |-> TRUE,
                       was_active |-> IF s.was_active = "unset" THEN "true" ELSE s.was_active],
                      [b EXCEPT !.keys = @ \cup {"space"}],
                      << Event("kb.press", a, 0, FALSE) >>, FALSE)

KeyboardRelease(kind, a, s, b, f) ==
    LET s1 == [is_executing |-> FALSE,
               was_active |-> IF s.was_active = "unset" THEN "unset" ELSE "false"]
    IN  IF s.is_executing /\ mode(kind) = "hold"
        THEN IF f = "kb.release"
             THEN Outcome(s1, b, << Event("kb.release", a, 0, TRUE) >>, FALSE)
             ELSE Outcome(s1, [b EXCEPT !.keys = @ \ {"space"}],
                          << Event("kb.release", a, 0, FALSE) >>, FALSE)
        ELSE Outcome(s1, b, << >>, FALSE)

KeyboardResetState(kind, a, s, b, f) ==
    Outcome([is_executing |-> FALSE, was_active |-> "false"], b, << >>, FALSE)

(***************************************************************************)
(* MouseAction (button "left"; the move variant is relative with x = 1.0,  *)
(* y = 0.5).  execute has no try/except: a backend failure propagates.     *)
(***************************************************************************)
MouseExecute(kind, a, s, b, v, f) ==
    CASE action_type(kind) = "click" ->
            IF s.is_executing THEN Outcome(s, b, << >>, FALSE)
            ELSE IF f = "mouse.click"
            THEN Outcome(s, b, << Event("mouse.click", a, 0, TRUE) >>, TRUE)
            ELSE Outcome([s EXCEPT !.is_executing = TRUE], b,
                         << Event("mouse.click", a, 0, FALSE) >>, FALSE)
      [] action_type(kind) = "hold" ->
            IF s.is_executing THEN Outcome(s, b, << >>, FALSE)
            ELSE IF f = "mouse.press"
            THEN Outcome(s, b, << Event("mouse.press", a, 0, TRUE) >>, TRUE)
            ELSE Outcome([s EXCEPT !.is_executing = TRUE],
                         [b EXCEPT !.buttons = @ \cup {"left"}],
                         << Event("mouse.press", a, 0, FALSE) >>, FALSE)
      [] OTHER ->
            LET dx == (((1000 - 500) * MoveFactor) * v) \div 1000000
            IN  IF f = "mouse.move"
                THEN Outcome(s, b, << Event("mouse.move", a, dx, TRUE) >>, TRUE)
                ELSE Outcome([s EXCEPT !.is_executing = TRUE], b,
                             << Event("mouse.move", a, dx, FALSE) >>, FALSE)

MouseRelease(kind, a, s, b, f) ==
    LET s1 == [s EXCEPT !.is_executing = FALSE]
    IN  IF s.is_executing /\ action_type(kind) = "hold"
        THEN IF f = "mouse.release"
             THEN Outcome(s1, b, << Event("mouse.release", a, 0, TRUE) >>, FALSE)
             ELSE Outcome(s1, [b EXCEPT !.buttons = @ \ {"left"}],
                          << Event("mouse.release", a, 0, FALSE) >>, FALSE)
        ELSE Outcome(s1, b, << >>, FALSE)

(***************************************************************************)
(* GamepadAction on the shared gamepad (config value 1.0).  The setters    *)
(* change the held report; update() sends it and may raise.  Neither       *)
(* execute nor release has a try/except.                                   *)
(***************************************************************************)
PadSet(kind, report, v) ==
    CASE control(kind) = "button_a" -> [report EXCEPT !.buttons = @ \cup {"a"}]
      [] control(kind) = "left_stick_x" -> [report EXCEPT !.lx = Scale(v, StickRange), !.ly = 0]
      [] control(kind) = "left_stick_y" -> [report EXCEPT !.lx = 0, !.ly = Scale(v, StickRange)]
      [] OTHER -> [report EXCEPT !.lt = Scale(v, TriggerRange)]

PadClear(kind, report) ==
    CASE control(kind) = "button_a" -> [report EXCEPT !.buttons = @ \ {"a"}]
      [] ControlContains(control(kind), "stick") -> [report EXCEPT !.lx = 0, !.ly = 0]
      [] OTHER -> [report EXCEPT !.lt = 0]

PadSetOp(kind) ==
    CASE control(kind) = "button_a" -> "pad.press_button"
      [] ControlContains(control(kind), "stick") -> "pad.left_joystick"
      [] OTHER -> "pad.left_trigger"

PadClearOp(kind) ==
    CASE control(kind) = "button_a" -> "pad.release_button"
      [] ControlContains(control(kind), "stick") -> "pad.left_joystick"
      [] OTHER -> "pad.left_trigger"

PadArg(kind, v) ==
    CASE control(kind) = "button_a" -> 0
      [] ControlContains(control(kind), "stick") -> Scale(v, StickRange)
      [] OTHER -> Scale(v, TriggerRange)

GamepadExecute(kind, a, s, b, v, f) ==
    IF s.is_executing THEN Outcome(s, b, << >>, FALSE)
    ELSE LET rep == PadSet(kind, b.pad_report, v)
             set == Event(PadSetOp(kind), a, PadArg(kind, v), FALSE)
         IN  IF f = "pad.update"
             THEN Outcome(s, [b EXCEPT !.pad_report = rep],
                          << set, Event("pad.update", a, 0, TRUE) >>, TRUE)
             ELSE Outcome([s EXCEPT !.is_executing = TRUE],
                          [b EXCEPT !.pad_report = rep, !.pad_device = rep],
                          << set, Event("pad.update", a, 0, FALSE) >>, FALSE)

GamepadRelease(kind, a, s, b, f) ==
    IF ~s.is_executing THEN Outcome(s, b, << >>, FALSE)
    ELSE LET rep == PadClear(kind, b.pad_report)
             clr == Event(PadClearOp(kind), a, 0, FALSE)
         IN  IF f = "pad.update"
             THEN Outcome(s, [b EXCEPT !.pad_report = rep],
                          << clr, Event("pad.update", a, 0, TRUE) >>, TRUE)
             ELSE Outcome([s EXCEPT !.is_executing = FALSE],
                          [b EXCEPT !.pad_report = rep, !.pad_device = rep],
                          << clr, Event("pad.update", a, 0, FALSE) >>, FALSE)

(***************************************************************************)
(* Any other BaseAction subclass: the abstract execute and release, plus   *)
(* the optional reset_state, each of which may raise.                      *)
(***************************************************************************)
CustomExecute(kind, a, s, b, v, f) ==
    IF f = "custom.execute"
    THEN Outcome(s, b, << Event("custom.execute", a, v, TRUE) >>, TRUE)
    ELSE Outcome([s EXCEPT !.is_executing = TRUE], b, << >>, FALSE)

CustomRelease(kind, a, s, b, f) ==
    IF f = "custom.release"
    THEN Outcome(s, b, << Event("custom.release", a, 0, TRUE) >>, TRUE)
    ELSE Outcome([s EXCEPT !.is_executing = FALSE], b, << >>, FALSE)

CustomResetState(kind, a, s, b, f) ==
    IF f = "custom.reset_state"
    THEN Outcome(s, b, << Event("custom.reset_state", a, 0, TRUE) >>, TRUE)
    ELSE Outcome([s EXCEPT !.is_executing = FALSE], b, << >>, FALSE)

(***************************************************************************)
(* Dynamic dispatch of action.execute, action.release, action.reset_state. *)
(***************************************************************************)
ExecuteFresh(kind, a, s, b, v, f) ==
    CASE get_name(kind) = "keyboard" -> KeyboardExecute(kind, a, InitActionState, b, v, f)
      [] get_name(kind) = "mouse" -> MouseExecute(kind, a, InitActionState, b, v, f)
      [] get_name(kind) = "gamepad" -> GamepadExecute(kind, a, InitActionState, b, v, f)
      [] OTHER -> CustomExecute(kind, a, s, b, v, f)

ActionExecute(kind, a, s, b, v, f) ==
    CASE get_name(kind) = "keyboard" -> KeyboardExecute(kind, a, s, b, v, f)
      [] get_name(kind) = "mouse" -> MouseExecute(kind, a, s, b, v, f)
      [] get_name(kind) = "gamepad" -> GamepadExecute(kind, a, s, b, v, f)
      [] OTHER -> CustomExecute(kind, a, s, b, v, f)

ActionRelease(kind, a, s, b, f) ==
    CASE get_name(kind) = "keyboard" -> KeyboardRelease(kind, a, s, b, f)
      [] get_name(kind) = "mouse" -> MouseRelease(kind, a, s, b, f)
      [] get_name(kind) = "gamepad" -> GamepadRelease(kind, a, s, b, f)
      [] OTHER -> CustomRelease(kind, a, s, b, f)

ActionResetState(kind, a, s, b, f) ==
    IF get_name(kind) = "keyboard" THEN KeyboardResetState(kind, a, s, b, f)
    ELSE CustomResetState(kind, a, s, b, f)

(***************************************************************************)
(* ActionDispatcher.  active_actions is a Python dict: a sequence of       *)
(* entries [name, action, value] in insertion order, one per key.          *)
(***************************************************************************)
KeysOf(active) == {active[i].name : i \in 1..Len(active)}

Lookup(active, name) == active[CHOOSE i \in 1..Len(active) : active[i].name = name]

\* self.active_actions[name] = (action, value): an existing key keeps its
\* position, a new key is appended.
Store(active, name, a, v) ==
    IF name \in KeysOf(active)
    THEN [i \in 1..Len(active) |->
            IF active[i].name = name THEN [name |-> name, action |-> a, value |-> v]
            ELSE active[i]]
    ELSE Append(active, [name |-> name, action |-> a, value |-> v])

DeleteNothing(active, name) == active

\* del self.active_actions[name]
Delete(active, name) == SelectSeq(active, LAMBDA e : e.name # name)

Abs(x) == IF x < 0 THEN -x ELSE x

Call(op, name, a, v, raised) ==
    [op |-> op, gesture |-> name, action |-> a, arg |-> v, raised |-> raised]

IsNewActivationAlways(name, active) == TRUE

\* if gesture_name not in self.active_actions
IsNewActivation(name, active) == name \notin KeysOf(active)

IsContinuousAlways(kind) == TRUE

\* is_continuous: a gamepad control containing "stick" or "trigger", or a
\* mouse action of type "move".
IsContinuous(kind) ==
    CASE get_name(kind) = "gamepad" ->
            ControlContains(control(kind), "stick") \/ ControlContains(control(kind), "trigger")
      [] get_name(kind) = "mouse" -> action_type(kind) = "move"
      [] OTHER -> FALSE

ValueChangedAtAll(existing_value, trigger_value) == existing_value # trigger_value

\* abs(existing_value - trigger_value) > 0.01
ValueChanged(existing_value, trigger_value) ==
    Abs(existing_value - trigger_value) > Threshold

ExecuteNotCaught(raised) == raised

\* The except clauses of dispatch and release_all: TRUE when an exception
\* raised inside the try block leaves the handler (none of them re-raises).
ExecuteEscapes(raised) == FALSE

UpdateEscapes(raised) == FALSE

ReleaseEscapes(raised) == FALSE

ResetEscapes(raised) == FALSE

ReleaseEdgeOmitted(K, acc, e, F) == acc

\* The release edge of one tracked entry: the body of the loops at lines
\* 66-79 and 83-93 without the removal of the key.  reset_state is inside the
\* try block of release, after it.
ReleaseEdge(K, acc, e, F) ==
    LET k   == K[e.action]
        rr  == ActionRelease(k, e.action, acc.st[e.action], acc.backend, F[e.action])
        log1 == acc.log \o << Call("release", e.name, e.action, 0, rr.raised) >> \o rr.events
        st1 == [acc.st EXCEPT ![e.action] = rr.st]
    IN  IF rr.raised
        THEN [acc EXCEPT !.st = st1, !.backend = rr.backend, !.log = log1,
                         !.exc = ReleaseEscapes(rr.raised)]
        ELSE IF HasResetState(k)
        THEN LET rs == ActionResetState(k, e.action, rr.st, rr.backend, F[e.action])
             IN  [acc EXCEPT !.st = [st1 EXCEPT ![e.action] = rs.st],
                             !.backend = rs.backend,
                             !.log = log1 \o << Call("reset_state", e.name, e.action, 0, rs.raised) >>
                                          \o rs.events,
                             !.exc = ResetEscapes(rs.raised) /\ ReleaseEscapes(rs.raised)]
        ELSE [acc EXCEPT !.st = st1, !.backend = rr.backend, !.log = log1]

\* One iteration of the loop over gesture_activations (lines 24-58).
Activate(K, acc, rec, F) ==
    IF ~rec.is_active THEN acc
    ELSE
    LET a   == rec.action
        k   == K[a]
        cur == acc.current_active \cup {rec.name}
    IN  IF IsNewActivation(rec.name, acc.active)
        THEN LET r == ActionExecute(k, a, acc.st[a], acc.backend, rec.value, F[a])
                 log1 == acc.log \o << Call("execute", rec.name, a, rec.value, r.raised) >> \o r.events
             IN  [acc EXCEPT !.current_active = cur,
                             !.st = [@ EXCEPT ![a] = r.st],
                             !.backend = r.backend,
                             !.log = log1,
                             !.active = IF r.raised THEN @ ELSE Store(@, rec.name, a, rec.value),
                             !.exc = ExecuteEscapes(r.raised)]
        ELSE LET existing == Lookup(acc.active, rec.name)
             IN  IF IsContinuous(k) /\ ValueChanged(existing.value, rec.value)
                 THEN LET r == ActionExecute(k, a, acc.st[a], acc.backend, rec.value, F[a])
                          log1 == acc.log \o << Call("update", rec.name, a, rec.value, r.raised) >>
                                          \o r.events
                          esc == UpdateEscapes(r.raised)
                      IN  [acc EXCEPT !.current_active = cur,
                                      !.st = [@ EXCEPT ![a] = r.st],
                                      !.backend = r.backend,
                                      !.log = log1,
                                      !.active = IF esc THEN @ ELSE Store(@, rec.name, a, rec.value),
                                      !.exc = esc]
                 ELSE [acc EXCEPT !.current_active = cur,
                                  !.active = Store(@, rec.name, a, rec.value)]

RECURSIVE ActivateLoop(_, _, _, _, _)
ActivateLoop(K, acc, recs, i, F) ==
    IF i > Len(recs) \/ acc.exc THEN acc
    ELSE ActivateLoop(K, Activate(K, acc, recs[i], F), recs, i + 1, F)

\* The loop over gestures_to_release (lines 66-79); an exception that leaves
\* the handler ends the loop before the del of that entry.
RECURSIVE ReleaseLoop(_, _, _, _, _)
ReleaseLoop(K, acc, todo, i, F) ==
    IF i > Len(todo) \/ acc.exc THEN acc
    ELSE LET acc1 == ReleaseEdge(K, acc, todo[i], F)
         IN  ReleaseLoop(K,
                 IF acc1.exc THEN acc1 ELSE [acc1 EXCEPT !.active = Delete(@, todo[i].name)],
                 todo, i + 1, F)

StartCall(active, st, backend) ==
    [active |-> active, st |-> st, backend |-> backend, log |-> << >>,
     current_active |-> {}, exc |-> FALSE]

\* A dispatch without its release loop.
ActivateOnly(K, active, st, backend, recs, F) ==
    ActivateLoop(K, StartCall(active, st, backend), recs, 1, F)

\* ActionDispatcher.dispatch(gesture_activations); K gives each action
\* instance's variant, F the backend call that raises for each instance
\* during this call (or NoFault).
dispatch(K, active, st, backend, recs, F) ==
    LET acc1 == ActivateLoop(K, StartCall(active, st, backend), recs, 1, F)
        todo == SelectSeq(acc1.active, LAMBDA e : e.name \notin acc1.current_active)
    IN  ReleaseLoop(K, acc1, todo, 1, F)

\* for ... in list(self.active_actions.items()) (lines 83-93)
RECURSIVE ReleaseAllLoop(_, _, _, _, _)
ReleaseAllLoop(K, acc, todo, i, F) ==
    IF i > Len(todo) \/ acc.exc THEN acc
    ELSE ReleaseAllLoop(K, ReleaseEdge(K, acc, todo[i], F), todo, i + 1, F)

\* release_all over every loaded action instead of the tracked ones.
release_all_loaded(K, active, st, backend, F) ==
    LET all == SelectSeq(Definitions, LAMBDA d : d.action \in DOMAIN K)
        todo == [i \in 1..Len(all) |->
                    [name |-> all[i].name, action |-> all[i].action, value |-> 0]]
        acc1 == ReleaseAllLoop(K, StartCall(active, st, backend), todo, 1, F)
    IN  [acc1 EXCEPT !.active = << >>]

\* ActionDispatcher.release_all()
release_all(K, active, st, backend, F) ==
    LET acc1 == ReleaseAllLoop(K, StartCall(active, st, backend), active, 1, F)
    IN  IF acc1.exc THEN acc1 ELSE [acc1 EXCEPT !.active = << >>]

(***************************************************************************)
(* The state machine: a dispatcher driven by arbitrary activation lists    *)
(* over the loaded gestures and by release_all calls.                      *)
(***************************************************************************)
VARIABLES
    gestures,         \* GestureEngine.gestures: the loaded definitions, in load order
    kinds,            \* the variant each loaded action instance was constructed as
    active_actions,   \* ActionDispatcher.active_actions
    st,               \* is_executing / _was_active of each action instance
    backend,          \* the input-simulation backend
    log,              \* the action and backend calls made by the last call, in order
    call,             \* the last dispatcher call and its inputs
    last_record,      \* is_active of the most recent activation record of each name
    outstanding,      \* per name: returned activation-edge executes minus releases
    held,             \* per name: where the name is in an inactive/active.../inactive cycle
    last_call,        \* per action instance: the last execute or release call it received
    dispatch_raised,  \* whether the last dispatcher call raised
    applied,          \* times an action called directly applied its effect since its last release
    executes,         \* execute calls made directly on an action since its last release
    config,           \* the gestures_config last given to GestureEngine.load_gestures
    load_errors,      \* the construction errors caught by the last load_gestures
    frame_number,     \* GestureEngine.frame_number
    detected,         \* what each loaded gesture's detect did on the last frame
    results,          \* the list the last GestureEngine.process returned
    process_raised,   \* whether the last GestureEngine.process raised
    trigger,          \* a trigger's debounce fields
    raw_hist,         \* the raw readings fed to the trigger so far
    out_hist,         \* the debounced values returned so far
    variant,          \* a trigger instance of one of the variants, as a loaded gesture holds it
    twin,             \* a freshly constructed instance fed the frames given since the last reset
    seen,             \* the last frame given to the instance and what detect returned
    hold,             \* a PoseHoldTrigger's fields
    now,              \* time.time() in milliseconds
    since,            \* time of the first frame of the current run of inner-active frames
    frame,            \* what the last frame gave the PoseHoldTrigger
    is_running,       \* MainWindow.is_running
    current_profile,  \* MainWindow.current_profile
    camera_is_running,  \* CameraCapture.is_running
    warning_shown,    \* MainWindow._camera_disconnect_warning_shown
    closed,           \* the window has been closed
    tick,             \* what the last driver step was and did
    is_processing,    \* MainWindow.is_processing
    frame_skip_counter,  \* MainWindow.frame_skip_counter
    dialog,           \* process_frame is inside the modal "Camera Disconnected" dialog
    tracked_at_load   \* the active map at the last load_gestures of the driver

dispatcherVars == << active_actions, st, backend, log, call, last_record,
                     outstanding, held, last_call, dispatch_raised, applied,
                     executes >>

engineVars == << config, load_errors, frame_number, detected, results, process_raised >>

triggerVars == << trigger, raw_hist, out_hist, variant, twin, seen >>

holdVars == << hold, now, since, frame >>

driverVars == << is_running, current_profile, camera_is_running, warning_shown,
                 closed, tick, tracked_at_load, is_processing, frame_skip_counter,
                 dialog >>

vars == << gestures, kinds, dispatcherVars, engineVars, triggerVars, holdVars,
           driverVars >>

\* The parts of the program a specification does not exercise stay as
\* constructed.
NoProfile == [name |-> "None", gestures |-> << >>]

NoTick == [step |-> "init", frame |-> "none"]

NoVariant == [type |-> "none"]

NoFrame == [step |-> "init"]

EngineIdle ==
    /\ config = << >>
    /\ load_errors = << >>
    /\ frame_number = 0
    /\ detected = << >>
    /\ results = << >>
    /\ process_raised = FALSE

TriggerIdle ==
    /\ trigger = [debounce_frames |-> 0]
    /\ raw_hist = << >>
    /\ out_hist = << >>
    /\ variant = NoVariant
    /\ twin = NoVariant
    /\ seen = NoFrame

HoldIdle ==
    /\ hold = [duration_ms |-> 0]
    /\ now = 0
    /\ since = -1
    /\ frame = << >>

DriverIdle ==
    /\ is_running = FALSE
    /\ current_profile = NoProfile
    /\ camera_is_running = FALSE
    /\ warning_shown = FALSE
    /\ closed = FALSE
    /\ tick = NoTick
    /\ tracked_at_load = << >>
    /\ is_processing = FALSE
    /\ frame_skip_counter = 0
    /\ dialog = FALSE

\* The profiles explored, as the variants of the loaded gestures' actions:
\* every variant alone, and a pair of two variants that can raise, the first
\* with reset_state, the second continuous.
Profiles == {<< k >> : k \in Kinds} \cup { << "custom", "mouse_move" >> }

NoCall == [op |-> "init", activations |-> << >>, faults |-> << >>]

Init ==
    /\ \E p \in Profiles :
          /\ gestures = SubSeq(Definitions, 1, Len(p))
          /\ kinds = [a \in {Definitions[i].action : i \in 1..Len(p)} |->
                        p[CHOOSE i \in 1..Len(p) : Definitions[i].action = a]]
    /\ active_actions = << >>
    /\ st = [a \in Actions |-> InitActionState]
    /\ backend = InitBackend
    /\ log = << >>
    /\ call = NoCall
    /\ last_record = [n \in Names |-> "none"]
    /\ outstanding = [n \in Names |-> 0]
    /\ held = [n \in Names |-> "broken"]
    /\ last_call = [a \in Actions |-> "none"]
    /\ dispatch_raised = FALSE
    /\ applied = 0
    /\ executes = 0
    /\ EngineIdle /\ TriggerIdle /\ HoldIdle /\ DriverIdle

\* A dispatcher as constructed, with no call made on it.
DispatcherIdle ==
    /\ active_actions = << >>
    /\ st = [a \in Actions |-> InitActionState]
    /\ backend = InitBackend
    /\ log = << >>
    /\ call = NoCall
    /\ last_record = [n \in Names |-> "none"]
    /\ outstanding = [n \in Names |-> 0]
    /\ held = [n \in Names |-> "broken"]
    /\ last_call = [a \in Actions |-> "none"]
    /\ dispatch_raised = FALSE
    /\ applied = 0
    /\ executes = 0

\* An engine with no gesture loaded.
NoGestures ==
    /\ gestures = << >>
    /\ kinds = [a \in {} |-> "custom"]

\* What one frame reports about one gesture: no tuple, an inactive tuple, or
\* an active tuple with a trigger value.
Reports ==
    {[r |-> "absent", v |-> 0], [r |-> "inactive", v |-> 0]}
        \cup {[r |-> "active", v |-> x] : x \in Values}

\* The activation list for a choice of reports, in load order.
ActivationList(G, rep) ==
    LET Rec(i) == [name |-> G[i].name, action |-> G[i].action,
                   is_active |-> rep[i].r = "active",
                   value |-> rep[i].v]
        kept == SelectSeq([i \in 1..Len(G) |-> i], LAMBDA i : rep[i].r # "absent")
    IN  [j \in 1..Len(kept) |-> Rec(kept[j])]

\* For each loaded action instance, no fault or one of the backend calls of
\* its variant.
FaultChoices(K) ==
    {F \in [DOMAIN K -> {NoFault} \cup UNION {FaultPoints(k) : k \in Kinds}] :
        \A a \in DOMAIN K : F[a] \in {NoFault} \cup FaultPoints(K[a])}

\* Every injected fault is one the call runs into.
FaultsHit(F, calls) ==
    \A a \in DOMAIN F :
        F[a] # NoFault =>
            \E i \in 1..Len(calls) :
                calls[i].action = a /\ calls[i].op = F[a] /\ calls[i].raised

Count(calls, op, name) ==
    Cardinality({i \in 1..Len(calls) : calls[i].op = op /\ calls[i].gesture = name})

CountOk(calls, op, name) ==
    Cardinality({i \in 1..Len(calls) :
                    calls[i].op = op /\ calls[i].gesture = name /\ ~calls[i].raised})

Outstanding(old, calls) ==
    [n \in Names |-> old[n] + CountOk(calls, "execute", n) - Count(calls, "release", n)]

\* The last execute (activation edge or continuous update) or release call
\* an action instance received, with the outcome of an execute; "retry_ok" is
\* an activation-edge execute that returned normally right after one that
\* raised.
LastCall(old, calls) ==
    [a \in Actions |->
        LET idx == {i \in 1..Len(calls) :
                       calls[i].action = a /\ calls[i].op \in {"execute", "update", "release"}}
        IN  IF idx = {} THEN old[a]
            ELSE LET c == calls[CHOOSE i \in idx : \A j \in idx : j <= i]
                 IN  IF c.op = "release" THEN "release"
                     ELSE IF c.raised THEN "execute_raised"
                     ELSE IF c.op = "execute" /\ old[a] = "execute_raised" THEN "retry_ok"
                     ELSE "execute_ok"]

Reported(recs, n) == \E i \in 1..Len(recs) : recs[i].name = n

ReportedActive(recs, n) == \E i \in 1..Len(recs) : recs[i].name = n /\ recs[i].is_active

\* "idle": the last dispatcher call was a dispatch reporting the name
\* inactive; "held_pending" / "held_ok": since then every call was a dispatch
\* reporting it active, and no / some execute for it has returned normally;
\* "broken": anything else (never reported, left out of a list, release_all).
Held(old, recs, calls) ==
    [n \in Names |->
        IF ~Reported(recs, n) THEN "broken"
        ELSE IF ~ReportedActive(recs, n) THEN "idle"
        ELSE IF old[n] = "broken" THEN "broken"
        ELSE IF old[n] = "held_ok" \/ CountOk(calls, "execute", n) > 0 THEN "held_ok"
        ELSE "held_pending"]

Record(r, c) ==
    /\ active_actions' = r.active
    /\ st' = r.st
    /\ backend' = r.backend
    /\ log' = r.log
    /\ call' = c
    /\ outstanding' = Outstanding(outstanding, r.log)
    /\ \A n \in Names : outstanding'[n] <= MaxOutstanding
    /\ held' = Held(held, c.activations, r.log)
    /\ last_call' = LastCall(last_call, r.log)
    /\ dispatch_raised' = r.exc
    /\ UNCHANGED << gestures, kinds, engineVars, triggerVars, holdVars, driverVars >>

Finish(r, c) ==
    /\ Record(r, c)
    /\ UNCHANGED << applied, executes >>

Dispatch ==
    \E rep \in [1..Len(gestures) -> Reports], F \in FaultChoices(kinds) :
        LET recs == ActivationList(gestures, rep)
            r == dispatch(kinds, active_actions, st, backend, recs, F)
        IN  /\ FaultsHit(F, r.log)
            /\ Finish(r, [op |-> "dispatch", activations |-> recs, faults |-> F])
            /\ last_record' =
                   [n \in Names |->
                       IF ReportedActive(recs, n) THEN "active"
                       ELSE IF Reported(recs, n) THEN "inactive"
                       ELSE last_record[n]]

ReleaseAll ==
    \E F \in FaultChoices(kinds) :
        LET r == release_all(kinds, active_actions, st, backend, F)
        IN  /\ FaultsHit(F, r.log)
            /\ Finish(r, [op |-> "release_all", activations |-> << >>, faults |-> F])
            /\ UNCHANGED last_record

Next == Dispatch \/ ReleaseAll

Spec == Init /\ [][Next]_vars

TypeOK ==
    /\ DOMAIN kinds = {gestures[i].action : i \in 1..Len(gestures)}
    /\ \A a \in DOMAIN kinds : kinds[a] \in Kinds \cup {"pad_stick_y"}
    /\ KeysOf(active_actions) \subseteq {gestures[i].name : i \in 1..Len(gestures)}
    /\ Len(active_actions) = Cardinality(KeysOf(active_actions))
    /\ dispatch_raised \in BOOLEAN

(***************************************************************************)
(* Properties of the dispatcher.                                           *)
(***************************************************************************)
\* The variants the dispatcher is to treat as continuous: gamepad stick and
\* trigger controls and the mouse move.
ContinuousKinds == {"pad_stick", "pad_trigger", "mouse_move"}

Executes(calls, n) == Count(calls, "execute", n) + Count(calls, "update", n)

Releases(calls, n) == Count(calls, "release", n)

C2_Original ==
    [][call'.op = "dispatch" =>
        \A i \in 1..Len(call'.activations) :
            LET rec == call'.activations[i]
                n == rec.name
                ex == Executes(log', n)
                rl == Releases(log', n)
            IN  kinds[rec.action] \notin ContinuousKinds =>
                  /\ (held[n] = "idle" /\ rec.is_active) => (ex = 1 /\ rl = 0)
                  /\ (held[n] \in {"held_pending", "held_ok"} /\ rec.is_active)
                        => (ex = 0 /\ rl = 0)
                  /\ (held[n] \in {"held_pending", "held_ok"} /\ ~rec.is_active)
                        => (ex = 0 /\ rl = 1)]_vars

\* C2 amended: execute is called on each active dispatch of the cycle until
\* one call returns normally and on none after it (so exactly once when the
\* first call returns normally); release is called exactly once, on the
\* inactive dispatch that ends the cycle, when some execute returned normally
\* and not at all otherwise.
C2_Lifecycle ==
    [][call'.op = "dispatch" =>
        \A i \in 1..Len(call'.activations) :
            LET rec == call'.activations[i]
                n == rec.name
                ex == Executes(log', n)
                rl == Releases(log', n)
            IN  kinds[rec.action] \notin ContinuousKinds =>
                  /\ (held[n] \in {"idle", "held_pending"} /\ rec.is_active)
                        => (ex = 1 /\ rl = 0)
                  /\ (held[n] = "held_ok" /\ rec.is_active) => (ex = 0 /\ rl = 0)
                  /\ (held[n] = "held_ok" /\ ~rec.is_active) => (ex = 0 /\ rl = 1)
                  /\ (held[n] = "held_pending" /\ ~rec.is_active) => (ex = 0 /\ rl = 0)]_vars

\* A non-continuous gesture inside a cycle whose execute has returned, on an
\* active dispatch that made no call for it (k >= 2).
C2_Witness ==
    \E i \in 1..Len(gestures) :
        /\ kinds[gestures[i].action] \notin ContinuousKinds
        /\ held[gestures[i].name] = "held_ok"
        /\ call.op = "dispatch"
        /\ Executes(log, gestures[i].name) = 0
        /\ gestures[i].name \in KeysOf(active_actions)

\* C3 as stated: after every dispatch call a name is a key of the active map
\* iff its most recent activation record had is_active = true.
C3_Original ==
    call.op = "dispatch" =>
        \A n \in Names : (n \in KeysOf(active_actions)) <=> (last_record[n] = "active")

\* C3 amended: after every dispatch call a name is a key of the active map
\* iff the activation list of that call reports it active and either it was a
\* key before the call or an activation-edge execute for it returned normally
\* in the call; a name the list reports inactive or leaves out is not a key.
C3_ActiveMap ==
    [][call'.op = "dispatch" =>
        \A n \in Names :
            (n \in KeysOf(active_actions')) <=>
                (/\ ReportedActive(call'.activations, n)
                 /\ (n \in KeysOf(active_actions) \/ CountOk(log', "execute", n) > 0))]_vars

\* A dispatch that reported a name active and whose execute for it raised:
\* the name is not a key although its most recent record is active.
C3_Witness ==
    \E n \in Names :
        /\ call.op = "dispatch"
        /\ ReportedActive(call.activations, n)
        /\ Count(log, "execute", n) = 1
        /\ CountOk(log, "execute", n) = 0
        /\ n \notin KeysOf(active_actions)

ResetKinds == {"kb_press", "kb_hold", "custom"}

Position(calls, op, n) == CHOOSE i \in 1..Len(calls) : calls[i].op = op /\ calls[i].gesture = n

\* C5: in every dispatch call, each tracked name that the activation list
\* leaves out or reports inactive gets release() on its action, then
\* reset_state() when the action has it, and is removed from the active map,
\* also when release() or reset_state() raises.
C5_ReleaseEdge ==
    [][call'.op = "dispatch" =>
        \A i \in 1..Len(active_actions) :
            LET e == active_actions[i]
            IN  ~ReportedActive(call'.activations, e.name) =>
                  /\ Releases(log', e.name) = 1
                  /\ kinds[e.action] \in ResetKinds =>
                        /\ Count(log', "reset_state", e.name) = 1
                        /\ Position(log', "release", e.name)
                              < Position(log', "reset_state", e.name)
                  /\ e.name \notin KeysOf(active_actions')]_vars

\* C6: on a continuation the dispatcher re-invokes execute, with the new
\* value, iff the action is continuous and the new value differs from the
\* stored one by more than 0.01; a non-continuous action receives no call;
\* the stored value becomes the new value in every case.
C6_Continuation ==
    [][call'.op = "dispatch" =>
        \A i \in 1..Len(call'.activations) :
            LET rec == call'.activations[i]
                n == rec.name
            IN  (rec.is_active /\ n \in KeysOf(active_actions)) =>
                  LET old == Lookup(active_actions, n).value
                      cont == kinds[rec.action] \in ContinuousKinds
                      far == Abs(rec.value - old) > Threshold
                  IN  /\ Count(log', "update", n) = (IF cont /\ far THEN 1 ELSE 0)
                      /\ \A j \in 1..Len(log') :
                            (log'[j].op = "update" /\ log'[j].gesture = n)
                                => log'[j].arg = rec.value
                      /\ Count(log', "execute", n) = 0
                      /\ Releases(log', n) = 0
                      /\ ~cont => \A j \in 1..Len(log') : log'[j].action # rec.action
                      /\ n \in KeysOf(active_actions')
                      /\ Lookup(active_actions', n).value = rec.value]_vars

\* A continuation that re-invoked execute on a continuous action and stored
\* the new value.
C6_Witness ==
    \E n \in Names :
        /\ call.op = "dispatch"
        /\ Count(log, "update", n) = 1
        /\ n \in KeysOf(active_actions)
        /\ \E j \in 1..Len(log) :
              log[j].op = "update" /\ log[j].arg = Lookup(active_actions, n).value

\* A backend call made for an action instance raised.
EffectFailed(calls, a) ==
    \E i \in 1..Len(calls) : calls[i].action = a /\ calls[i].gesture = "" /\ calls[i].raised

ActionOf(G, n) == G[CHOOSE i \in 1..Len(G) : G[i].name = n].action

FailedEdge(G, calls, n) ==
    /\ \E i \in 1..Len(G) : G[i].name = n
    /\ Count(calls, "execute", n) = 1
    /\ EffectFailed(calls, ActionOf(G, n))

\* C7: when the effect of an action fails on an activation edge, the name is
\* not in the active map after that dispatch call, and a next dispatch call
\* that still reports the gesture active calls execute again; for keyboard,
\* mouse and gamepad actions alike.
C7_FailedEdgeRetried ==
    [][call'.op = "dispatch" =>
        \A n \in Names :
            /\ FailedEdge(gestures, log', n) => n \notin KeysOf(active_actions')
            /\ (call.op = "dispatch" /\ FailedEdge(gestures, log, n)
                   /\ ReportedActive(call'.activations, n))
                  => Count(log', "execute", n) = 1]_vars

CallsOn(calls, a) == SelectSeq(calls, LAMBDA c : c.action = a)

EntriesOf(active, a) == SelectSeq(active, LAMBDA e : e.action = a)

\* C8: a dispatch call never raises, and what it does to every other gesture
\* (the calls on its action, in order, the state of its action, its entry in
\* the active map) is what the same call does when the action that raised
\* does not raise.
C8_Isolation ==
    [][call'.op = "dispatch" =>
        /\ ~dispatch_raised'
        /\ \A a \in DOMAIN kinds :
              call'.faults[a] # NoFault =>
                  LET alt == dispatch(kinds, active_actions, st, backend, call'.activations,
                                      [call'.faults EXCEPT ![a] = NoFault])
                  IN  \A b \in DOMAIN kinds \ {a} :
                        /\ CallsOn(log', b) = CallsOn(alt.log, b)
                        /\ st'[b] = alt.st[b]
                        /\ EntriesOf(active_actions', b) = EntriesOf(alt.active, b)]_vars

\* A dispatch in which a call on one action raised and a call on another
\* action was made after it.
C8_Witness ==
    /\ call.op = "dispatch"
    /\ ~dispatch_raised
    /\ \E i, j \in 1..Len(log) :
          /\ i < j
          /\ log[i].gesture # "" /\ log[i].raised
          /\ log[j].gesture # "" /\ log[j].action # log[i].action

\* C9: release_all calls release() exactly once on the action of every
\* tracked gesture, and reset_state() when the action has it, and leaves the
\* active map empty, also when some release() raises.
C9_ReleaseAll ==
    [][call'.op = "release_all" =>
        /\ \A i \in 1..Len(active_actions) :
              LET e == active_actions[i]
              IN  /\ Releases(log', e.name) = 1
                  /\ kinds[e.action] \in ResetKinds => Count(log', "reset_state", e.name) = 1
        /\ \A n \in Names \ KeysOf(active_actions) : Releases(log', n) = 0
        /\ active_actions' = << >>]_vars

\* C10: release_all on an empty active map makes no action call and leaves
\* the map empty and every action and the backend as they were; so does a
\* release_all that directly follows a release_all.
C10_ReleaseAllIdempotent ==
    [][(call'.op = "release_all" /\ (active_actions = << >> \/ call.op = "release_all")) =>
        /\ log' = << >>
        /\ active_actions' = << >>
        /\ st' = st
        /\ backend' = backend]_vars

\* A release_all that found the map empty after a gesture had been active.
C10_Witness ==
    /\ call.op = "release_all"
    /\ log = << >>
    /\ active_actions = << >>
    /\ \E n \in Names : last_record[n] = "active" /\ last_call[ActionOf(gestures, n)] = "release"

(***************************************************************************)
(* BaseTrigger: the debouncing shared by the trigger variants.             *)
(***************************************************************************)
\* The number of raw readings fed to one trigger.
MaxFrames == 6

\* The largest debounce_frames explored.
MaxDebounce == 3

\* BaseTrigger.__init__: the debounce fields of a trigger configured with
\* debounce_frames = n.
InitTrigger(n) ==
    [consecutive_active_frames |-> 0, consecutive_inactive_frames |-> 0,
     debounce_frames |-> n, debounced_active |-> FALSE]

\* A threshold that is reached one frame later.
ReachedAfter(count, n) == count > n

\* self._consecutive_..._frames >= self._debounce_frames
Reached(count, n) == count >= n

\* A counter that is left as it is when the other reading comes.
NotCleared(count) == count

\* self._consecutive_..._frames = 0
Cleared(count) == 0

\* BaseTrigger._apply_debouncing(raw_active): the trigger's fields after the
\* call; the call returns debounced_active.
apply_debouncing(t, raw_active) ==
    LET t1 == IF raw_active
              THEN [t EXCEPT !.consecutive_active_frames = @ + 1,
                             !.consecutive_inactive_frames = Cleared(@)]
              ELSE [t EXCEPT !.consecutive_inactive_frames = @ + 1,
                             !.consecutive_active_frames = Cleared(@)]
    IN  IF Reached(t1.consecutive_active_frames, t1.debounce_frames)
        THEN [t1 EXCEPT !.debounced_active = TRUE]
        ELSE IF Reached(t1.consecutive_inactive_frames, t1.debounce_frames)
        THEN [t1 EXCEPT !.debounced_active = FALSE]
        ELSE t1

\* BaseTrigger.reset(): the debounce fields.
reset(t) == InitTrigger(t.debounce_frames)

DebounceInit ==
    /\ \E n \in 1..MaxDebounce : trigger = InitTrigger(n)
    /\ raw_hist = << >>
    /\ out_hist = << >>
    /\ variant = NoVariant
    /\ twin = NoVariant
    /\ seen = NoFrame
    /\ NoGestures /\ DispatcherIdle /\ EngineIdle /\ HoldIdle /\ DriverIdle

ApplyDebouncing ==
    \E raw_active \in BOOLEAN :
        /\ Len(raw_hist) < MaxFrames
        /\ trigger' = apply_debouncing(trigger, raw_active)
        /\ raw_hist' = Append(raw_hist, raw_active)
        /\ out_hist' = Append(out_hist, trigger'.debounced_active)
        /\ UNCHANGED << variant, twin, seen >>
        /\ UNCHANGED << gestures, kinds, dispatcherVars, engineVars, holdVars, driverVars >>

Reset ==
    /\ raw_hist # << >>
    /\ trigger' = reset(trigger)
    /\ raw_hist' = << >>
    /\ out_hist' = << >>
    /\ UNCHANGED << variant, twin, seen >>
    /\ UNCHANGED << gestures, kinds, dispatcherVars, engineVars, holdVars, driverVars >>

DebounceNext == ApplyDebouncing \/ Reset

DebounceSpec == DebounceInit /\ [][DebounceNext]_vars

\* The readings of the example trace.
ExampleRaw == << TRUE, TRUE, FALSE, TRUE, TRUE, TRUE >>

\* C17 as stated: with debounce_frames = 2, the raw readings [T,T,F,T,T,T]
\* fed to a trigger in its initial state give [F,F,F,F,T,T].
C17_Original ==
    (trigger.debounce_frames = 2 /\ raw_hist = ExampleRaw)
        => out_hist = << FALSE, FALSE, FALSE, FALSE, TRUE, TRUE >>

\* C17: with debounce_frames = 2, the raw readings [T,T,F,T,T,T] fed to a
\* trigger in its initial state give [F,T,T,T,T,T]: the second reading already
\* completes two consecutive true readings, and the single false reading does
\* not bring the output back.
C17_Trace ==
    (trigger.debounce_frames = 2 /\ raw_hist = ExampleRaw)
        => out_hist = << FALSE, TRUE, TRUE, TRUE, TRUE, TRUE >>

\* The example trace has been fed in full.
C17_Witness ==
    /\ trigger.debounce_frames = 2
    /\ raw_hist = ExampleRaw
    /\ Len(out_hist) = Len(ExampleRaw)

\* The last n readings of h are all v.
Completes(h, n, v) ==
    /\ Len(h) >= n
    /\ \A i \in (Len(h) - n + 1)..Len(h) : h[i] = v

Alternating(h) == \A i \in 1..(Len(h) - 1) : h[i + 1] # h[i]

\* C18: for debounce_frames = N >= 1, the debounced output changes on a frame
\* exactly when that frame's raw reading completes N consecutive identical
\* readings whose value differs from the current output, and then takes that
\* value; otherwise it keeps its value. With N = 2 an input alternating every
\* frame never changes the output.
C18_Debounce ==
    [][Len(raw_hist') = Len(raw_hist) + 1 =>
        LET raw == raw_hist'[Len(raw_hist')]
            n == trigger.debounce_frames
            before == trigger.debounced_active
            after == trigger'.debounced_active
        IN  /\ n >= 1
            /\ (after # before) <=> (Completes(raw_hist', n, raw) /\ raw # before)
            /\ (after # before) => after = raw
            /\ (n = 2 /\ Alternating(raw_hist'))
                   => \A i \in 1..Len(out_hist') : out_hist'[i] = FALSE
    ]_vars

\* With debounce_frames >= 2 the output went up and came down again.
C18_Witness ==
    /\ trigger.debounce_frames >= 2
    /\ \E i \in 1..(Len(out_hist) - 1) : out_hist[i] /\ ~out_hist[i + 1]

(***************************************************************************)
(* PoseHoldTrigger: a trigger that wraps an inner trigger and requires it  *)
(* to stay active for duration_ms. Times are in milliseconds.              *)
(***************************************************************************)
\* The largest time.time() explored.
MaxTime == 6

\* The largest duration_ms explored.
MaxDuration == 3

\* The largest time between two frames.
MaxStep == 2

\* current_value 1.0; values are in thousandths.
One == 1000

\* hold_start_time = None
None == -1

\* What a frame gives a PoseHoldTrigger: no landmarks, or landmarks on which
\* the inner trigger's detect returns True, returns False or raises.
Frames == {"no_landmarks", "inner_active", "inner_inactive", "inner_raises"}

\* PoseHoldTrigger.__init__ with duration_ms = d, with or without an inner
\* trigger configuration.
InitPoseHold(d, inner) ==
    [duration_ms |-> d, inner_trigger |-> inner, hold_start_time |-> None,
     hold_elapsed_ms |-> 0, current_value |-> 0, is_active |-> FALSE]

Min(x, y) == IF x <= y THEN x ELSE y

\* A hold that needs more than duration_ms.
HeldLonger(elapsed, d) == elapsed > d

\* self.hold_elapsed_ms >= self.duration_ms
HeldFor(elapsed, d) == elapsed >= d

\* A hold start that survives an inactive frame.
StartKept(start) == start

\* self.hold_start_time = None, when the inner trigger is inactive
StartDropped(start) == None

\* PoseHoldTrigger.detect(landmarks, frame_data) on a frame f at time t: the
\* trigger's fields after the call; the call returns is_active, or raises when
\* the inner trigger raises.
PoseHoldDetect(h, f, t) ==
    IF ~h.inner_trigger \/ f = "no_landmarks"
    THEN [h EXCEPT !.is_active = FALSE, !.current_value = 0, !.hold_start_time = None]
    ELSE IF f = "inner_raises" THEN h
    ELSE IF f = "inner_active"
    THEN LET start == IF h.hold_start_time = None THEN t ELSE h.hold_start_time
             elapsed == t - start
         IN  [h EXCEPT !.hold_start_time = start,
                       !.hold_elapsed_ms = elapsed,
                       !.current_value = Min(One, (elapsed * One) \div h.duration_ms),
                       !.is_active = HeldFor(elapsed, h.duration_ms)]
    ELSE [h EXCEPT !.hold_start_time = StartDropped(@),
                   !.hold_elapsed_ms = 0,
                   !.current_value = 0,
                   !.is_active = FALSE]

\* PoseHoldTrigger.reset()
PoseHoldReset(h) ==
    [h EXCEPT !.is_active = FALSE, !.current_value = 0, !.hold_start_time = None,
              !.hold_elapsed_ms = 0]

HoldInit ==
    /\ \E d \in 1..MaxDuration, inner \in BOOLEAN : hold = InitPoseHold(d, inner)
    /\ now = 0
    /\ since = None
    /\ frame = << >>
    /\ NoGestures /\ DispatcherIdle /\ EngineIdle /\ TriggerIdle /\ DriverIdle

\* One frame: the clock has advanced, detect is called. since follows the
\* inner trigger's reports only: the time of the first frame of the current
\* run of frames on which it returned True; a frame on which it raises reports
\* nothing.
HoldDetect ==
    \E f \in Frames, dt \in 1..MaxStep :
        /\ now + dt <= MaxTime
        /\ now' = now + dt
        /\ hold' = PoseHoldDetect(hold, f, now')
        /\ since' = IF hold.inner_trigger /\ f = "inner_raises" THEN since
                    ELSE IF hold.inner_trigger /\ f = "inner_active"
                    THEN (IF since = None THEN now' ELSE since)
                    ELSE None
        /\ frame' = IF frame = << >> THEN << f >> ELSE << frame[Len(frame)], f >>
        /\ UNCHANGED << gestures, kinds, dispatcherVars, engineVars, triggerVars, driverVars >>

HoldReset ==
    /\ frame # << >>
    /\ hold' = PoseHoldReset(hold)
    /\ since' = None
    /\ frame' = << >>
    /\ UNCHANGED now
    /\ UNCHANGED << gestures, kinds, dispatcherVars, engineVars, triggerVars, driverVars >>

HoldNext == HoldDetect \/ HoldReset

HoldSpec == HoldInit /\ [][HoldNext]_vars

LastFrame == IF frame = << >> THEN "none" ELSE frame[Len(frame)]

\* C19: while the inner trigger reports active on every frame from the frame
\* at time t0 (since) on, a PoseHold with duration_ms = D > 0 returns false
\* when t - t0 < D and true when t - t0 >= D; over these frames its value does
\* not decrease and is 1.0 exactly from the threshold on.
C19_HoldDuration ==
    [][(LastFrame' = "inner_active" /\ hold.inner_trigger) =>
        /\ hold.duration_ms > 0
        /\ since' # None
        /\ hold'.is_active <=> (now' - since' >= hold.duration_ms)
        /\ (hold'.current_value = One) <=> (now' - since' >= hold.duration_ms)
        /\ hold'.current_value \in 0..One
        /\ (since' = since) => hold'.current_value >= hold.current_value
    ]_vars

\* A hold of more than one frame reached its duration with the value at 1.0.
C19_Witness ==
    /\ frame = << "inner_active", "inner_active" >>
    /\ hold.duration_ms >= 2
    /\ hold.is_active
    /\ hold.current_value = One
    /\ now - since >= hold.duration_ms

\* C20: on a frame on which the inner trigger reports inactive the PoseHold
\* reports inactive with value 0.0 and forgets its hold start, and whenever it
\* is active the inner trigger has been active for duration_ms counted from
\* the first frame on which it was active again.
C20_HoldReset ==
    [][hold.inner_trigger =>
        /\ LastFrame' = "inner_inactive" =>
              /\ ~hold'.is_active
              /\ hold'.current_value = 0
              /\ hold'.hold_start_time = None
              /\ hold'.hold_elapsed_ms = 0
        /\ (LastFrame' = "inner_active" /\ LastFrame = "inner_inactive") =>
              /\ hold'.hold_start_time = now'
              /\ ~hold'.is_active
        /\ hold'.is_active =>
              /\ since' # None
              /\ now' - since' >= hold.duration_ms
    ]_vars

\* The inner trigger dropped right after a frame on which it was active, with
\* an elapsed hold time that was still short of the duration.
C20_Witness ==
    /\ frame = << "inner_active", "inner_inactive" >>
    /\ hold.inner_trigger
    /\ hold.duration_ms >= 2
    /\ ~hold.is_active
    /\ hold.current_value = 0
    /\ hold.hold_start_time = None

(***************************************************************************)
(* GestureEngine: loading a gesture configuration and evaluating the       *)
(* loaded gestures on a frame.                                             *)
(***************************************************************************)
\* The largest frame_number explored.
MaxFrameNumber == 2

\* TriggerRegistry._triggers: the names the shipped triggers register.
RegisteredTriggers ==
    {"hand_raise", "body_lean", "pose_hold", "hand_gesture", "arm_stretch",
     "leg_raise", "motion_speed", "pointing_gesture"}

\* ActionRegistry._actions: the names the shipped actions register.
RegisteredActions == {"keyboard", "mouse", "gamepad"}

\* The variant an action constructor builds from empty params.
DefaultKind(type) ==
    CASE type = "keyboard" -> "kb_press"
      [] type = "mouse"    -> "mouse_click"
      [] type = "gamepad"  -> "pad_button"

\* KeyError(f"... type '{name}' not registered. Available: {list(...)}")
KeyError(name, registered) ==
    [exception |-> "KeyError", requested |-> name, available |-> registered]

\* An exception raised by a constructor that rejects its params.
ConstructorError(name) ==
    [exception |-> "Exception", requested |-> name, available |-> {}]

\* TriggerRegistry.create / ActionRegistry.create(name, config): an instance
\* or the exception raised. params is "valid" or "rejected" (the constructor
\* raises on them: a pose_hold whose inner type is not registered, a keyboard
\* key that is not a string).
create(registered, c) ==
    IF c.type \notin registered
    THEN [ok |-> FALSE, error |-> KeyError(c.type, registered)]
    ELSE IF c.params = "rejected"
    THEN [ok |-> FALSE, error |-> ConstructorError(c.type)]
    ELSE [ok |-> TRUE, error |-> KeyError("", {})]

\* A construction failure that ends the load.
ConstructionNotCaught(failed) == failed

\* except KeyError / except Exception around the construction of one gesture
ConstructionEscapes(failed) == FALSE

\* The body of the loop of load_gestures for entry i of the configuration;
\* the action instance constructed for entry i is the i-th of Actions.
LoadOne(acc, cfg, i) ==
    LET t == create(RegisteredTriggers, cfg[i].trigger)
        a == IF t.ok THEN create(RegisteredActions, cfg[i].action) ELSE t
    IN  IF t.ok /\ a.ok
        THEN [acc EXCEPT
                 !.gestures = Append(@, [name |-> cfg[i].name,
                                         action |-> Definitions[i].action]),
                 !.kinds = [x \in DOMAIN @ \cup {Definitions[i].action} |->
                               IF x = Definitions[i].action
                               THEN DefaultKind(cfg[i].action.type) ELSE @[x]]]
        ELSE [acc EXCEPT !.errors = Append(@, a.error),
                         !.raised = ConstructionEscapes(TRUE)]

RECURSIVE LoadLoop(_, _, _)
LoadLoop(acc, cfg, i) ==
    IF i > Len(cfg) \/ acc.raised THEN acc
    ELSE LoadLoop(LoadOne(acc, cfg, i), cfg, i + 1)

\* GestureEngine.load_gestures(gestures_config)
load_gestures(cfg) ==
    LoadLoop([gestures |-> << >>, kinds |-> [a \in {} |-> "custom"],
              errors |-> << >>, raised |-> FALSE], cfg, 1)

\* A detect failure that ends process.
DetectNotCaught(failed) == failed

\* except Exception around the evaluation of one gesture
DetectEscapes(failed) == FALSE

\* GestureEngine.process(landmarks, additional_data), rep[i] telling what
\* detect and get_value of gesture i do on this frame ("absent": one of them
\* raises).
process(G, rep) ==
    LET escapes == \E i \in 1..Len(G) : rep[i].r = "absent" /\ DetectEscapes(TRUE)
    IN  [results |-> IF escapes THEN << >> ELSE ActivationList(G, rep),
         raised |-> escapes]

ValidTrigger == [type |-> "hand_raise", params |-> "valid"]

ValidAction == [type |-> "keyboard", params |-> "valid"]

\* The trigger and action configurations an entry is drawn from: both
\* constructible, or one of them of an unregistered type or with rejected
\* params.
EntryChoices ==
    {[trigger |-> ValidTrigger, action |-> ValidAction],
     [trigger |-> [type |-> "wave", params |-> "valid"], action |-> ValidAction],
     [trigger |-> [type |-> "pose_hold", params |-> "rejected"], action |-> ValidAction],
     [trigger |-> ValidTrigger, action |-> [type |-> "joystick", params |-> "valid"]],
     [trigger |-> ValidTrigger, action |-> [type |-> "keyboard", params |-> "rejected"]]}

\* The configurations given to load_gestures: up to Len(Definitions) entries.
Configs ==
    UNION {[1..n -> EntryChoices] : n \in 0..Len(Definitions)}

\* The names the entries carry: entry i under the i-th gesture name, or under
\* the name of the first entry (load_gestures takes the names as given).
NamesFor(n) ==
    {f \in [1..n -> Names] : \A i \in 1..n : f[i] \in {Definitions[i].name, Definitions[1].name}}

ConfigOf(choice, names) ==
    [i \in 1..Len(choice) |->
        [name |-> names[i], trigger |-> choice[i].trigger,
         action |-> choice[i].action, enabled |-> TRUE]]

EngineInit ==
    /\ NoGestures /\ EngineIdle
    /\ DispatcherIdle /\ TriggerIdle /\ HoldIdle /\ DriverIdle

LoadGestures ==
    \E choice \in Configs : \E names \in NamesFor(Len(choice)) :
        LET r == load_gestures(ConfigOf(choice, names))
        IN  /\ config' = ConfigOf(choice, names)
            /\ gestures' = r.gestures
            /\ kinds' = r.kinds
            /\ load_errors' = r.errors
            /\ UNCHANGED << frame_number, detected, results, process_raised >>
            /\ UNCHANGED << dispatcherVars, triggerVars, holdVars, driverVars >>

Process ==
    \E rep \in [1..Len(gestures) -> Reports] :
        LET r == process(gestures, rep)
        IN  /\ frame_number < MaxFrameNumber
            /\ frame_number' = frame_number + 1
            /\ detected' = rep
            /\ results' = r.results
            /\ process_raised' = r.raised
            /\ UNCHANGED << gestures, kinds, config, load_errors >>
            /\ UNCHANGED << dispatcherVars, triggerVars, holdVars, driverVars >>

ResetAll ==
    /\ frame_number > 0
    /\ frame_number' = 0
    /\ UNCHANGED << gestures, kinds, config, load_errors, detected, results, process_raised >>
    /\ UNCHANGED << dispatcherVars, triggerVars, holdVars, driverVars >>

EngineNext == LoadGestures \/ Process \/ ResetAll

EngineSpec == EngineInit /\ [][EngineNext]_vars

\* The tuple process returns for gesture i when its evaluation returns rep[i].
Tuple(G, rep, i) ==
    [name |-> G[i].name, action |-> G[i].action,
     is_active |-> rep[i].r = "active", value |-> rep[i].v]

\* C13: every process call returns exactly one tuple per loaded gesture, in
\* load order, the gestures whose evaluation failed on the frame included.
C13_OneTuplePerGesture ==
    [][frame_number' = frame_number + 1 =>
        /\ Len(results') = Len(gestures)
        /\ \A i \in 1..Len(gestures) :
              /\ results'[i].name = gestures[i].name
              /\ results'[i].action = gestures[i].action
    ]_vars

\* The gestures whose evaluation returned on the frame.
Evaluated(rep) == {i \in 1..Len(rep) : rep[i].r # "absent"}

\* The position among the evaluated gestures of gesture i.
Rank(rep, i) == Cardinality({k \in Evaluated(rep) : k <= i})

\* C14: when the detect of a gesture raises, process does not raise and
\* returns, for every other loaded gesture, the tuple of that gesture's own
\* evaluation, in load order.
C14_ProcessIsolation ==
    [][frame_number' = frame_number + 1 =>
        /\ ~process_raised'
        /\ Len(results') = Cardinality(Evaluated(detected'))
        /\ \A i \in Evaluated(detected') :
              results'[Rank(detected', i)] = Tuple(gestures, detected', i)
    ]_vars

\* The first gesture's detect raised and the second gesture's tuple, active,
\* was returned.
C14_Witness ==
    /\ Len(gestures) = 2
    /\ Len(detected) = 2
    /\ detected[1].r = "absent"
    /\ detected[2].r = "active"
    /\ Len(results) = 1
    /\ results[1].name = gestures[2].name
    /\ results[1].is_active

\* Both the trigger and the action of an entry can be constructed.
Constructible(e) ==
    /\ e.trigger.type \in RegisteredTriggers
    /\ e.trigger.params # "rejected"
    /\ e.action.type \in RegisteredActions
    /\ e.action.params # "rejected"

\* The type an entry's construction fails on, for an unregistered type.
UnknownType(e) ==
    IF e.trigger.type \notin RegisteredTriggers THEN e.trigger.type
    ELSE IF e.trigger.params # "rejected" /\ e.action.type \notin RegisteredActions
    THEN e.action.type
    ELSE ""

\* C15: after load_gestures the engine holds exactly the entries of the given
\* list whose trigger and action could both be constructed, in list order,
\* whatever it held before; every other entry is skipped, and an entry of an
\* unregistered type has raised an error naming the requested type and the
\* registered types.
C15_LoadGestures ==
    LET good == SelectSeq([i \in 1..Len(config) |-> i],
                          LAMBDA i : Constructible(config[i]))
        bad == SelectSeq([i \in 1..Len(config) |-> i],
                         LAMBDA i : ~Constructible(config[i]))
    IN  /\ Len(gestures) = Len(good)
        /\ \A j \in 1..Len(good) :
              /\ gestures[j].name = config[good[j]].name
              /\ gestures[j].action = Definitions[good[j]].action
        /\ DOMAIN kinds = {gestures[j].action : j \in 1..Len(gestures)}
        /\ Len(load_errors) = Len(bad)
        /\ \A j \in 1..Len(bad) :
              UnknownType(config[bad[j]]) # "" =>
                  /\ load_errors[j].exception = "KeyError"
                  /\ load_errors[j].requested = UnknownType(config[bad[j]])
                  /\ load_errors[j].available \in {RegisteredTriggers, RegisteredActions}
                  /\ load_errors[j].requested \notin load_errors[j].available

\* A list whose first entry names an unregistered trigger type and whose
\* second entry is constructible has been loaded.
C15_Witness ==
    /\ Len(config) = 2
    /\ config[1].trigger.type \notin RegisteredTriggers
    /\ Constructible(config[2])
    /\ Len(gestures) = 1
    /\ gestures[1].name = config[2].name
    /\ Len(load_errors) = 1

(***************************************************************************)
(* MainWindow: the driver. It starts and stops the camera, swaps profiles, *)
(* and on every timer tick captures a frame, runs the engine and the       *)
(* dispatcher. Every handler runs to completion on the GUI thread, except  *)
(* that process_frame waits inside the modal "Camera Disconnected" dialog, *)
(* whose event loop can deliver a timer tick that was already due.         *)
(***************************************************************************)
\* The skipped ticks counted before the count is read.
MaxSkip == 2

EnabledEntry(type) ==
    [trigger |-> ValidTrigger, action |-> [type |-> type, params |-> "valid"],
     enabled |-> TRUE]

DisabledEntry(type) == [EnabledEntry(type) EXCEPT !.enabled = FALSE]

\* The profiles the user loads: one gamepad gesture; a keyboard gesture
\* followed by a mouse gesture that is configured with enabled = false.
DriverProfiles ==
    {[name |-> "p1", gestures |-> << EnabledEntry("gamepad") >>],
     [name |-> "p2", gestures |-> << EnabledEntry("keyboard"), DisabledEntry("mouse") >>]}

\* gestures_config = [g.model_dump() for g in profile.gestures]
ModelDump(profile) ==
    [i \in 1..Len(profile.gestures) |->
        [name |-> Definitions[i].name,
         trigger |-> profile.gestures[i].trigger,
         action |-> profile.gestures[i].action,
         enabled |-> profile.gestures[i].enabled]]

\* A stop_camera that leaves the dispatcher alone.
StopReleaseOmitted(K, active, s, b, F) == StartCall(active, s, b)

\* self.action_dispatcher.release_all() in stop_camera
StopRelease(K, active, s, b, F) == release_all(K, active, s, b, F)

\* The dispatcher untouched by a handler: no call is made on any action.
Untouched == [active |-> active_actions, st |-> st, backend |-> backend, log |-> << >>]

NeverProcessing(flag) == FALSE

\* if self.is_processing (the guard at the top of process_frame)
StillProcessing(flag) == flag

\* A timer tick reaches process_frame while the timer runs, or inside the
\* dialog that process_frame opened after stopping it.
TimerFires == (is_running \/ dialog) /\ ~closed

\* The once-a-second FPS update at the end of a processed frame clears the
\* count of skipped ticks.
FpsUpdate ==
    /\ is_processing' = FALSE
    /\ frame_skip_counter' \in {frame_skip_counter, 0}
    /\ UNCHANGED dialog

DriverInit ==
    /\ NoGestures /\ DispatcherIdle /\ EngineIdle /\ DriverIdle
    /\ TriggerIdle /\ HoldIdle

\* What a driver handler leaves of the dispatcher, the camera and the flags.
DriverFinish(r, run, cam, warn, t) ==
    /\ active_actions' = r.active
    /\ st' = r.st
    /\ backend' = r.backend
    /\ log' = r.log
    /\ is_running' = run
    /\ camera_is_running' = cam
    /\ warning_shown' = warn
    /\ tick' = t
    /\ UNCHANGED << call, last_record, outstanding, held, last_call, dispatch_raised,
                    applied, executes >>
    /\ UNCHANGED << frame_number, detected, results, process_raised >>
    /\ UNCHANGED << triggerVars, holdVars >>

Tick(step, f) == [step |-> step, frame |-> f]

\* A tick with a frame and landmarks, with what the evaluation of each loaded
\* gesture did on the frame: "absent" (detect or get_value raised),
\* "inactive" or "active".
PersonTick(rep) ==
    [step |-> "process_frame", frame |-> "person",
     reports |-> [i \in 1..Len(rep) |-> rep[i].r]]

\* stop_camera(): the timer and the camera are stopped, is_running is
\* cleared, the dispatcher releases everything.
StopCamera(F, warn, t) ==
    LET r == StopRelease(kinds, active_actions, st, backend, F)
    IN  /\ FaultsHit(F, r.log)
        /\ DriverFinish(r, FALSE, FALSE, warn, t)

\* toggle_camera(): start_camera() when stopped (nothing without a profile;
\* camera.start() succeeds or fails), stop_camera() when running.
ToggleCamera ==
    /\ ~closed /\ ~dialog
    /\ UNCHANGED << gestures, kinds, config, load_errors, current_profile, closed,
                    tracked_at_load, dialog >>
    /\ IF ~is_running
       THEN /\ current_profile # NoProfile
            /\ \E ok \in BOOLEAN :
                  /\ DriverFinish(Untouched, ok, ok, warning_shown,
                                  Tick("start_camera", "none"))
                  /\ is_processing' = IF ok THEN FALSE ELSE is_processing
                  /\ frame_skip_counter' = IF ok THEN 0 ELSE frame_skip_counter
       ELSE /\ \E F \in FaultChoices(kinds) :
                  StopCamera(F, warning_shown, Tick("stop_camera", "none"))
            /\ UNCHANGED << is_processing, frame_skip_counter >>

\* process_frame() on a tick on which camera.get_frame() returns None: the
\* read failed with the capture still opened, or the capture is gone
\* (CameraCapture.is_running cleared); the first such tick after a
\* disconnection stops the camera and opens the dialog, inside which
\* process_frame waits with is_processing set.
FrameNone ==
    /\ TimerFires /\ ~StillProcessing(is_processing)
    /\ UNCHANGED << gestures, kinds, config, load_errors, current_profile, closed,
                    tracked_at_load, frame_skip_counter >>
    /\ \E cam \in {camera_is_running, FALSE} :
          IF ~cam /\ ~warning_shown
          THEN /\ \E F \in FaultChoices(kinds) :
                     StopCamera(F, TRUE, Tick("process_frame", "no_frame_stop"))
               /\ is_processing' = TRUE
               /\ dialog' = TRUE
          ELSE /\ DriverFinish(Untouched, is_running, cam, warning_shown,
                               Tick("process_frame", "no_frame"))
               /\ is_processing' = FALSE
               /\ UNCHANGED dialog

\* process_frame() on a tick that arrives while is_processing is set: the
\* tick is counted and nothing else is done.
FrameSkipped ==
    /\ TimerFires /\ StillProcessing(is_processing)
    /\ frame_skip_counter < MaxSkip
    /\ frame_skip_counter' = frame_skip_counter + 1
    /\ DriverFinish(Untouched, is_running, camera_is_running, warning_shown,
                    Tick("process_frame", "skipped"))
    /\ UNCHANGED << gestures, kinds, config, load_errors, current_profile, closed,
                    tracked_at_load, is_processing, dialog >>

\* The user closes the dialog: process_frame clears is_processing and
\* returns.
DialogClosed ==
    /\ dialog
    /\ dialog' = FALSE
    /\ is_processing' = FALSE
    /\ DriverFinish(Untouched, is_running, camera_is_running, warning_shown,
                    Tick("process_frame", "dialog_closed"))
    /\ UNCHANGED << gestures, kinds, config, load_errors, current_profile, closed,
                    tracked_at_load, frame_skip_counter >>

\* process_frame() on a tick with a frame on which a detector raises: the
\* outer except of process_frame takes it.
FrameDetectorRaises ==
    /\ TimerFires /\ ~StillProcessing(is_processing) /\ camera_is_running
    /\ is_processing' = FALSE
    /\ UNCHANGED << gestures, kinds, config, load_errors, current_profile, closed,
                    tracked_at_load, frame_skip_counter, dialog >>
    /\ DriverFinish(Untouched, is_running, camera_is_running, FALSE,
                    Tick("process_frame", "detector_raised"))

\* process_frame() on a tick with a frame on which the pose detector finds
\* no person (landmarks is None): release_all().
FrameNoPerson ==
    /\ TimerFires /\ ~StillProcessing(is_processing) /\ camera_is_running
    /\ FpsUpdate
    /\ UNCHANGED << gestures, kinds, config, load_errors, current_profile, closed,
                    tracked_at_load >>
    /\ \E F \in FaultChoices(kinds) :
          LET r == release_all(kinds, active_actions, st, backend, F)
          IN  /\ FaultsHit(F, r.log)
              /\ DriverFinish(r, is_running, camera_is_running, FALSE,
                              Tick("process_frame", "no_person"))

\* process_frame() on a tick with a frame and landmarks: process, then
\* dispatch of the list it returned (no dispatch when process raises).
FramePerson ==
    /\ TimerFires /\ ~StillProcessing(is_processing) /\ camera_is_running
    /\ FpsUpdate
    /\ UNCHANGED << gestures, kinds, config, load_errors, current_profile, closed,
                    tracked_at_load >>
    /\ \E rep \in [1..Len(gestures) -> Reports], F \in FaultChoices(kinds) :
          LET p == process(gestures, rep)
              r == IF p.raised THEN Untouched
                   ELSE dispatch(kinds, active_actions, st, backend, p.results, F)
          IN  /\ FaultsHit(F, r.log)
              /\ DriverFinish(r, is_running, camera_is_running, FALSE, PersonTick(rep))

\* set_profile(profile): stop_camera() if running, load every gesture of
\* the profile into the engine, start_camera() again if it was running.
SetProfile ==
    /\ ~closed /\ ~dialog
    /\ UNCHANGED dialog
    /\ \E profile \in DriverProfiles, F \in FaultChoices(kinds), ok \in BOOLEAN :
          LET was_running == is_running
              r == IF was_running
                   THEN StopRelease(kinds, active_actions, st, backend, F)
                   ELSE Untouched
              l == load_gestures(ModelDump(profile))
          IN  /\ IF was_running THEN FaultsHit(F, r.log)
                 ELSE (ok /\ \A a \in DOMAIN F : F[a] = NoFault)
              /\ current_profile' = profile
              /\ config' = ModelDump(profile)
              /\ tracked_at_load' = r.active
              /\ gestures' = l.gestures
              /\ kinds' = l.kinds
              /\ load_errors' = l.errors
              /\ UNCHANGED closed
              /\ is_processing' = IF was_running /\ ok THEN FALSE ELSE is_processing
              /\ frame_skip_counter' = IF was_running /\ ok THEN 0 ELSE frame_skip_counter
              /\ DriverFinish([r EXCEPT !.st = [a \in Actions |-> InitActionState]],
                              was_running /\ ok, was_running /\ ok, warning_shown,
                              Tick("set_profile", "none"))

\* closeEvent(event): stop_camera() if running.
CloseEvent ==
    /\ ~closed /\ ~dialog
    /\ closed' = TRUE
    /\ UNCHANGED << gestures, kinds, config, load_errors, current_profile,
                    tracked_at_load, is_processing, frame_skip_counter, dialog >>
    /\ IF is_running
       THEN \E F \in FaultChoices(kinds) :
               StopCamera(F, warning_shown, Tick("close", "none"))
       ELSE DriverFinish(Untouched, FALSE, camera_is_running, warning_shown,
                         Tick("close", "none"))

DriverNext ==
    \/ ToggleCamera
    \/ FrameNone
    \/ FrameSkipped
    \/ DialogClosed
    \/ FrameDetectorRaises
    \/ FrameNoPerson
    \/ FramePerson
    \/ SetProfile
    \/ CloseEvent

DriverSpec == DriverInit /\ [][DriverNext]_vars

DialogClosedAfterSkip ==
    /\ tick = Tick("process_frame", "dialog_closed")
    /\ ~is_processing
    /\ frame_skip_counter > 0

\* C11: every processed frame on which the pose provider reports no person
\* ends with release_all called: after it the active map is empty and no
\* action is left executing.
C11_NoPersonFrame ==
    tick = Tick("process_frame", "no_person") =>
        /\ active_actions = << >>
        /\ \A a \in DOMAIN kinds : ~st[a].is_executing

\* The part of C11 about the dispatcher alone: after a frame without a person
\* the active map is empty and release was called on every tracked action.
NoPersonFrameReleases ==
    [][tick' = Tick("process_frame", "no_person") =>
        /\ active_actions' = << >>
        /\ \A i \in 1..Len(active_actions) :
              \E j \in 1..Len(log') :
                  /\ log'[j].op = "release"
                  /\ log'[j].action = active_actions[i].action
    ]_vars

\* C12: whenever the driver is not running the active map is empty, and the
\* active map was empty at every load_gestures: each handler that stops
\* processing (camera stop, profile swap, window close, disconnection) calls
\* release_all.
C12_StoppedMeansReleased ==
    /\ ~is_running => active_actions = << >>
    /\ tracked_at_load = << >>

\* A profile was swapped while running with an action tracked: the handler
\* released it before loading.
C12_Witness ==
    /\ tick.step = "set_profile"
    /\ \E i \in 1..Len(log) : log[i].op = "release"
    /\ active_actions = << >>
    /\ tracked_at_load = << >>

\* The entry of the current profile a loaded gesture was built from.
EntryOf(name) ==
    LET i == CHOOSE i \in 1..Len(current_profile.gestures) : Definitions[i].name = name
    IN  current_profile.gestures[i]

\* C16: once a profile is set, the engine's loaded gestures are exactly the
\* profile's entries with enabled = true, and no execute call is made for a
\* gesture configured with enabled = false.
C16_EnabledOnly ==
    /\ \A j \in 1..Len(gestures) : EntryOf(gestures[j].name).enabled
    /\ Len(gestures) =
           Cardinality({i \in 1..Len(current_profile.gestures) :
                           current_profile.gestures[i].enabled})
    /\ \A i \in 1..Len(log) :
           log[i].op = "execute" => EntryOf(log[i].gesture).enabled

(***************************************************************************)
(* The trigger variants.  A frame is described by what the variant's code  *)
(* reads from it: whether the pose landmark set is there, whether the pose *)
(* landmarks the variant requires are there and visible, whether the hand  *)
(* landmark sets hold the hand the variant requires, whether the geometric *)
(* condition of the variant holds on the landmarks that are there, and the *)
(* position of the body part whose speed is measured.                      *)
(***************************************************************************)
\* The largest smoothing (samples kept minus one) explored for motion_speed.
MaxSmoothing == 1

\* The largest time.time() a trigger variant is run to.
MaxClock == 4

\* The configurations a trigger instance is constructed from; debounce_frames
\* is left at its default in each. pose_hold wraps the variant named inner.
VariantConfigs ==
    {[type |-> "hand_raise", arm |-> "right", min_speed |-> 0, inner |-> ""],
     [type |-> "leg_raise", arm |-> "right", min_speed |-> 0, inner |-> ""],
     [type |-> "body_lean", arm |-> "right", min_speed |-> 0, inner |-> ""],
     [type |-> "arm_stretch", arm |-> "right", min_speed |-> 0, inner |-> ""],
     [type |-> "arm_stretch", arm |-> "both", min_speed |-> 1, inner |-> ""],
     [type |-> "motion_speed", arm |-> "right", min_speed |-> 1, inner |-> ""],
     [type |-> "hand_gesture", arm |-> "right", min_speed |-> 0, inner |-> ""],
     [type |-> "pointing_gesture", arm |-> "right", min_speed |-> 0, inner |-> ""],
     [type |-> "pose_hold", arm |-> "right", min_speed |-> 0, inner |-> "leg_raise"],
     [type |-> "pose_hold", arm |-> "right", min_speed |-> 0, inner |-> "hand_raise"]}

\* BaseTrigger.__init__ followed by the variant's own __init__: the fields of
\* an instance of a variant other than pose_hold.
InitVariant(c) ==
    [type |-> c.type, arm |-> c.arm, min_speed |-> c.min_speed,
     smoothing |-> MaxSmoothing,
     is_active |-> FALSE, current_value |-> 0,
     consecutive_active_frames |-> 0, consecutive_inactive_frames |-> 0,
     debounce_frames |-> 2, debounced_active |-> FALSE,
     position_history |-> << >>, time_history |-> << >>,
     previous_wrist_pos |-> None, previous_time |-> None]

\* TriggerRegistry.create(type, params) as a loaded gesture holds it: the
\* trigger (for pose_hold the wrapper with duration_ms = 2 and its inner
\* trigger) and GestureDefinition.last_triggered_time.
InitInstance(c) ==
    [type |-> c.type,
     hold |-> InitPoseHold(2, c.type = "pose_hold"),
     t |-> InitVariant(IF c.type = "pose_hold" THEN [c EXCEPT !.type = c.inner] ELSE c),
     last_triggered_time |-> None]

ConfigOfInstance(x) ==
    [type |-> x.type, arm |-> x.t.arm, min_speed |-> x.t.min_speed,
     inner |-> IF x.type = "pose_hold" THEN x.t.type ELSE ""]

\* The variants that read the hand landmark sets of the frame context.
HandVariants == {"hand_gesture", "pointing_gesture"}

\* The frames: pose is the pose landmark set ("none": landmarks is None;
\* "missing": a landmark the variant requires has no position; "low_vis": it
\* has visibility below MIN_LANDMARK_VISIBILITY); hands is frame_data["hands"]
\* ("none": None or empty; "missing": the hand the variant requires is not in
\* it); hit tells whether the geometric condition holds; pos is the position
\* of the measured body part.
AllFrames ==
    [pose : {"none", "ok", "missing", "low_vis"}, hands : {"none", "ok", "missing"},
     hit : BOOLEAN, pos : 0..1]

\* The frames that differ in something a variant reads.
FramesOf(type, inner) ==
    LET read == IF type = "pose_hold" THEN inner ELSE type
    IN  {f \in AllFrames :
            /\ read \in HandVariants => (f.pose \in {"none", "ok"} /\ f.pos = 0)
            /\ read \notin HandVariants => f.hands = "none"
            /\ read \notin {"motion_speed", "arm_stretch"} => f.pos = 0
            /\ (f.pose \in {"none", "missing"} /\ read \notin HandVariants)
                  => (~f.hit /\ f.pos = 0)
            /\ (f.hands \in {"none", "missing"} /\ read \in HandVariants) => ~f.hit}

\* What detect returns: the instance's fields after the call, the returned
\* boolean, and whether the call raised.
Detected(t, active) == [t |-> t, active |-> active, raised |-> FALSE]

\* The early return of a detect: is_active = False, current_value = 0.0,
\* return False; the debounce counters are not touched.
EarlyReturn(t) == Detected([t EXCEPT !.is_active = FALSE, !.current_value = 0], FALSE)

\* result = self._apply_debouncing(result); self.is_active = result; return
Debounced(t, raw_active) ==
    LET t1 == apply_debouncing(t, raw_active)
    IN  Detected([t1 EXCEPT !.is_active = t1.debounced_active], t1.debounced_active)

\* HandRaiseTrigger.detect with hand = "right": _check_hand returns False on
\* a missing position without touching current_value, reads no visibility,
\* and sets current_value = clamp(height_diff / threshold): 1.0 when the wrist
\* is above the threshold, here a half when it is not. No debouncing.
HandRaiseDetect(t, f) ==
    IF f.pose = "none" THEN EarlyReturn(t)
    ELSE IF f.pose = "missing" THEN Detected([t EXCEPT !.is_active = FALSE], FALSE)
    ELSE Detected([t EXCEPT !.current_value = IF f.hit THEN One ELSE One \div 2,
                            !.is_active = f.hit], f.hit)

\* LegRaiseTrigger.detect with leg = "right": _check_leg returns False on a
\* missing or barely visible landmark without touching current_value; its
\* result goes through the debouncing.
LegRaiseDetect(t, f) ==
    IF f.pose = "none" THEN EarlyReturn(t)
    ELSE IF f.pose \in {"missing", "low_vis"} THEN Debounced(t, FALSE)
    ELSE Debounced([t EXCEPT !.current_value = IF f.hit THEN One ELSE 0], f.hit)

\* BodyLeanTrigger.detect: early returns on missing or barely visible
\* landmarks; current_value = clamp(angle_diff / threshold), here a half when
\* the threshold is not exceeded.
BodyLeanDetect(t, f) ==
    IF f.pose \in {"none", "missing", "low_vis"} THEN EarlyReturn(t)
    ELSE Debounced([t EXCEPT !.current_value = IF f.hit THEN One ELSE One \div 2], f.hit)

\* ArmStretchTrigger._check_speed(wrist_pos, current_time): the fields after
\* the call and the returned boolean. Speeds are in thousandths.
CheckSpeed(t, pos, time) ==
    IF t.previous_wrist_pos = None \/ t.previous_time = None
    THEN [t |-> [t EXCEPT !.previous_wrist_pos = pos, !.previous_time = time], ok |-> FALSE]
    ELSE IF time - t.previous_time <= 0 THEN [t |-> t, ok |-> FALSE]
    ELSE LET speed == (Abs(pos - t.previous_wrist_pos) * One) \div (time - t.previous_time)
         IN  [t |-> [t EXCEPT !.previous_wrist_pos = pos, !.previous_time = time],
              ok |-> speed >= t.min_speed * One]

\* ArmStretchTrigger._check_arm_stretch on an arm that is extended in the
\* requested direction (hit) or not extended (value 0, no speed check).
CheckArmStretch(t, f, time) ==
    IF ~f.hit THEN [t |-> [t EXCEPT !.current_value = 0], ok |-> FALSE]
    ELSE LET s == IF t.min_speed > 0 THEN CheckSpeed(t, f.pos, time)
                  ELSE [t |-> t, ok |-> TRUE]
         IN  [t |-> [s.t EXCEPT !.current_value = IF s.ok THEN One ELSE 0], ok |-> s.ok]

\* ArmStretchTrigger.detect. arm = "right": early returns on missing
\* positions and on a barely visible wrist or shoulder. arm = "both":
\* _check_arm on the left arm, which is there and not extended unless the
\* landmarks are missing, then on the right arm, with no visibility check;
\* the result goes through the debouncing.
ArmStretchDetect(t, f, time) ==
    IF f.pose = "none" THEN EarlyReturn(t)
    ELSE IF t.arm = "both"
    THEN IF f.pose = "missing" THEN Debounced(t, FALSE)
         ELSE LET r == CheckArmStretch([t EXCEPT !.current_value = 0], f, time)
              IN  Debounced(r.t, r.ok)
    ELSE IF f.pose \in {"missing", "low_vis"} THEN EarlyReturn(t)
    ELSE LET r == CheckArmStretch(t, f, time)
         IN  Debounced(r.t, r.ok)

Last(h) == h[Len(h)]

NeverExceeds(len, smoothing) == FALSE

\* if len(self.position_history) > self.smoothing + 1
Exceeds(len, smoothing) == len > smoothing + 1

\* MotionSpeedTrigger.detect with direction = "any": the sample is appended
\* and the history cut to smoothing + 1 samples; speed is the distance between
\* the oldest and the newest sample over the elapsed time, in thousandths.
MotionSpeedDetect(t, f, time) ==
    IF f.pose \in {"none", "missing", "low_vis"} THEN EarlyReturn(t)
    ELSE LET p1 == Append(t.position_history, f.pos)
             h1 == Append(t.time_history, time)
             cut == Exceeds(Len(p1), t.smoothing)
             p2 == IF cut THEN Tail(p1) ELSE p1
             h2 == IF cut THEN Tail(h1) ELSE h1
             t1 == [t EXCEPT !.position_history = p2, !.time_history = h2]
             dt == Last(h2) - Head(h2)
         IN  IF Len(p2) < 2 \/ dt <= 0 THEN EarlyReturn(t1)
             ELSE LET speed == (Abs(Last(p2) - Head(p2)) * One) \div dt
                      fast == speed >= t.min_speed * One
                  IN  Debounced([t1 EXCEPT !.current_value =
                                     IF fast THEN Min(One, (speed * One) \div (t.min_speed * One * 2))
                                     ELSE 0],
                                fast)

\* HandGestureTrigger.detect and PointingGestureTrigger.detect with hand =
\* "right": landmarks is not read; no hands gives the early return; a frame
\* without the right hand makes _check_hand return False without touching
\* current_value; the result goes through the debouncing.
HandDetect(t, f) ==
    IF f.hands = "none" THEN EarlyReturn(t)
    ELSE IF f.hands = "missing" THEN Debounced(t, FALSE)
    ELSE Debounced([t EXCEPT !.current_value = IF f.hit THEN One ELSE 0], f.hit)

\* trigger.detect(landmarks, frame_data) of a variant other than pose_hold.
VariantDetect(t, f, time) ==
    CASE t.type = "hand_raise" -> HandRaiseDetect(t, f)
      [] t.type = "leg_raise" -> LegRaiseDetect(t, f)
      [] t.type = "body_lean" -> BodyLeanDetect(t, f)
      [] t.type = "arm_stretch" -> ArmStretchDetect(t, f, time)
      [] t.type = "motion_speed" -> MotionSpeedDetect(t, f, time)
      [] OTHER -> HandDetect(t, f)

\* A reset that keeps the variant's own history.
BaseResetOnly(t, cleared) == t

\* The variant's own part of reset(): MotionSpeedTrigger clears its two
\* histories, ArmStretchTrigger its previous position and time.
OwnReset(t, cleared) == cleared

\* BaseTrigger.reset() followed by the variant's own reset().
VariantReset(t) ==
    LET base == [t EXCEPT !.is_active = FALSE, !.current_value = 0,
                          !.consecutive_active_frames = 0,
                          !.consecutive_inactive_frames = 0,
                          !.debounced_active = FALSE]
    IN  CASE t.type = "motion_speed" ->
                OwnReset(base, [base EXCEPT !.position_history = << >>,
                                            !.time_history = << >>])
          [] t.type = "arm_stretch" ->
                OwnReset(base, [base EXCEPT !.previous_wrist_pos = None,
                                            !.previous_time = None])
          [] OTHER -> base

\* detect and get_value of the trigger of a loaded gesture on frame f at
\* time; for pose_hold, the wrapper's detect around the inner trigger's.
InstanceDetect(x, f, time) ==
    IF x.type # "pose_hold"
    THEN LET r == VariantDetect(x.t, f, time)
         IN  [x |-> [x EXCEPT !.t = r.t], active |-> r.active, value |-> r.t.current_value]
    ELSE IF f.pose = "none"
    THEN LET h == PoseHoldDetect(x.hold, "no_landmarks", time)
         IN  [x |-> [x EXCEPT !.hold = h], active |-> h.is_active, value |-> h.current_value]
    ELSE LET r == VariantDetect(x.t, f, time)
             h == PoseHoldDetect(x.hold, IF r.active THEN "inner_active" ELSE "inner_inactive",
                                 time)
         IN  [x |-> [x EXCEPT !.t = r.t, !.hold = h],
              active |-> h.is_active, value |-> h.current_value]

\* trigger.reset() of a loaded gesture's trigger; PoseHoldTrigger.reset()
\* resets its inner trigger too.
InstanceReset(x) ==
    IF x.type = "pose_hold"
    THEN [x EXCEPT !.hold = PoseHoldReset(@), !.t = VariantReset(@)]
    ELSE [x EXCEPT !.t = VariantReset(@)]

VariantInit ==
    /\ \E c \in VariantConfigs : variant = InitInstance(c)
    /\ twin = NoVariant
    /\ seen = NoFrame
    /\ trigger = [debounce_frames |-> 0]
    /\ raw_hist = << >>
    /\ out_hist = << >>
    /\ hold = [duration_ms |-> 0]
    /\ now = 0
    /\ since = None
    /\ frame = << >>
    /\ NoGestures /\ DispatcherIdle /\ EngineIdle /\ DriverIdle

\* The engine evaluates the gesture on a frame (the body of the loop of
\* process): detect, get_value, last_triggered_time when active. The clock
\* has advanced since the last frame, or reads the same once. The twin, when there is one, is
\* given the same frame.
EvaluateGesture ==
    \E f \in FramesOf(variant.type, variant.t.type), dt \in 0..1 :
        LET r == InstanceDetect(variant, f, now + dt)
            w == IF twin = NoVariant THEN r ELSE InstanceDetect(twin, f, now + dt)
        IN  /\ now + dt <= MaxClock
            /\ dt = 0 => (seen # NoFrame /\ seen.advanced)
            /\ now' = now + dt
            /\ variant' = [r.x EXCEPT !.last_triggered_time = IF r.active THEN now' ELSE @]
            /\ twin' = IF twin = NoVariant THEN NoVariant
                       ELSE [w.x EXCEPT !.last_triggered_time = IF w.active THEN now' ELSE @]
            /\ seen' = [step |-> "detect", frame |-> f, advanced |-> dt > 0,
                        active |-> r.active, value |-> r.value,
                        twin_active |-> w.active, twin_value |-> w.value]
            /\ UNCHANGED << trigger, raw_hist, out_hist, hold, since, frame >>
            /\ UNCHANGED << gestures, kinds, dispatcherVars, engineVars, driverVars >>

\* GestureEngine.reset_all() on the engine that holds the gesture: the
\* trigger is reset and last_triggered_time cleared. From here on a freshly
\* constructed instance of the same configuration is run beside it.
ResetGesture ==
    /\ seen # NoFrame
    /\ seen.step = "detect"
    /\ variant' = [InstanceReset(variant) EXCEPT !.last_triggered_time = None]
    /\ twin' = InitInstance(ConfigOfInstance(variant))
    /\ seen' = [step |-> "reset", advanced |-> TRUE,
                was_active |-> variant.t.debounced_active,
                samples |-> Len(variant.t.position_history)]
    /\ UNCHANGED << trigger, raw_hist, out_hist, hold, now, since, frame >>
    /\ UNCHANGED << gestures, kinds, dispatcherVars, engineVars, driverVars >>

VariantNext == EvaluateGesture \/ ResetGesture

VariantSpec == VariantInit /\ [][VariantNext]_vars

\* C21: reset() returns a trigger to its initial state: after reset_all the
\* gesture's trigger and last_triggered_time are those of a freshly
\* constructed instance of the same configuration, and on every later frame
\* the two return the same is_active and the same value; for the debounce
\* counters, the motion_speed samples, the arm_stretch previous position and
\* for pose_hold with its inner trigger.
C21_ResetEqualsFresh ==
    twin # NoVariant =>
        /\ variant = twin
        /\ seen.step = "detect" =>
              /\ seen.active = seen.twin_active
              /\ seen.value = seen.twin_value

\* A motion_speed trigger that was debounced active, with its history full,
\* has been reset.
C21_Witness ==
    /\ seen # NoFrame
    /\ seen.step = "reset"
    /\ variant.type = "motion_speed"
    /\ seen.was_active
    /\ seen.samples = MaxSmoothing + 1
    /\ twin # NoVariant

\* After a reset a pose_hold trigger was held again until it became active,
\* as its fresh twin did.
ResetThenActive ==
    /\ twin # NoVariant
    /\ seen.step = "detect"
    /\ variant.type = "pose_hold"
    /\ seen.active /\ seen.twin_active

\* C22: for every variant and every prior state, detect with landmarks =
\* None yields is_active = false and value = 0.0, whatever the hand landmark
\* sets of the frame context hold.
C22_AbsentLandmarks ==
    (seen # NoFrame /\ seen.step = "detect" /\ seen.frame.pose = "none") =>
        /\ ~seen.active
        /\ seen.value = 0

\* The part of C22 that the variants reading the pose landmarks satisfy,
\* pose_hold included whatever its inner trigger.
PoseVariantsAbsentLandmarks ==
    (seen # NoFrame /\ seen.step = "detect" /\ seen.frame.pose = "none"
        /\ variant.type \notin HandVariants) =>
        /\ ~seen.active
        /\ seen.value = 0

\* A landmark the variant requires is missing or barely visible on the frame.
RequiredMissing(x, f) ==
    IF (IF x.type = "pose_hold" THEN x.t.type ELSE x.type) \in HandVariants
    THEN f.hands = "missing"
    ELSE f.pose \in {"missing", "low_vis"}

\* C23: for every variant and every prior state, a frame on which a required
\* landmark is missing or has visibility below the minimum makes detect return
\* false and value() return 0.0.
C23_MissingLandmark ==
    (seen # NoFrame /\ seen.step = "detect" /\ RequiredMissing(variant, seen.frame)) =>
        /\ ~seen.active
        /\ seen.value = 0

\* The variants that return early on such a frame satisfy C23.
EarlyReturnVariants ==
    (seen # NoFrame /\ seen.step = "detect" /\ RequiredMissing(variant, seen.frame)
        /\ (variant.type \in {"body_lean", "motion_speed"}
              \/ (variant.type = "arm_stretch" /\ variant.t.arm = "right"))) =>
        /\ ~seen.active
        /\ seen.value = 0

(***************************************************************************)
(* Keyboard actions driven by the dispatcher.                              *)
(***************************************************************************)
\* The key taps an action instance sent during one call: a key-down that
\* the backend accepted, immediately followed by an accepted key-up.
Taps(calls, a) ==
    Cardinality({i \in 1..(Len(calls) - 1) :
                    /\ calls[i].action = a /\ calls[i].op = "kb.press" /\ ~calls[i].raised
                    /\ calls[i + 1].action = a /\ calls[i + 1].op = "kb.release"
                    /\ ~calls[i + 1].raised})

\* The backend calls of one name an action instance made during one call,
\* accepted or not.
BackendCalls(calls, a, op) ==
    Cardinality({i \in 1..Len(calls) : calls[i].action = a /\ calls[i].op = op})

\* A call is an activation edge of a name when it is a dispatch that reports
\* the name active and the call before it was not.
ActivationEdge(before, after, n) ==
    /\ after.op = "dispatch" /\ ReportedActive(after.activations, n)
    /\ ~(before.op = "dispatch" /\ ReportedActive(before.activations, n))

\* A call is a release edge of a name when the call before it was a dispatch
\* that reported the name active and this one is not.
DeactivationEdge(before, after, n) ==
    /\ before.op = "dispatch" /\ ReportedActive(before.activations, n)
    /\ ~(after.op = "dispatch" /\ ReportedActive(after.activations, n))

NoFaultIn(c) == \A a \in DOMAIN c.faults : c.faults[a] = NoFault

BoundTo(k) == Len(gestures) = 1 /\ kinds["a1"] = k

\* C24: for a gesture bound to a press-mode keyboard action, every dispatch
\* or release_all call sends one key tap when the call is an activation edge
\* of the gesture and none otherwise, so over any sequence of calls the
\* number of taps equals the number of activation edges.
C24_TapsEqualEdges ==
    [][BoundTo("kb_press") =>
          Taps(log', "a1") = IF ActivationEdge(call, call', "g1") THEN 1 ELSE 0]_vars

\* The same, for the calls during which the keyboard backend accepts every
\* key event.
PressTapsWithoutFault ==
    [][(BoundTo("kb_press") /\ NoFaultIn(call')) =>
          Taps(log', "a1") = IF ActivationEdge(call, call', "g1") THEN 1 ELSE 0]_vars

\* C25: for a single gesture bound to a hold-mode keyboard action, the key
\* is down in the backend exactly while the gesture is tracked in the active
\* map.
C25_KeyDownWhileTracked ==
    BoundTo("kb_hold") => (("space" \in backend.keys) <=> ("g1" \in KeysOf(active_actions)))

\* C25, the calls: one key-down at each activation edge and one key-up at
\* the following release edge or release_all, and no other key event; for
\* the calls during which the backend accepts every key event, starting
\* with the key down and the action executing exactly while the gesture is
\* tracked.
HoldEdgesWithoutFault ==
    [][(/\ BoundTo("kb_hold") /\ NoFaultIn(call')
        /\ (("space" \in backend.keys) <=> ("g1" \in KeysOf(active_actions)))
        /\ (st["a1"].is_executing <=> ("g1" \in KeysOf(active_actions))))
       =>
       (/\ BackendCalls(log', "a1", "kb.press") =
               IF ActivationEdge(call, call', "g1") THEN 1 ELSE 0
        /\ BackendCalls(log', "a1", "kb.release") =
               IF DeactivationEdge(call, call', "g1") THEN 1 ELSE 0
        /\ (("space" \in backend'.keys) <=> ("g1" \in KeysOf(active_actions'))))]_vars

(***************************************************************************)
(* One action instance called directly: execute(value) and release() in    *)
(* any order, the backend failing at any of its calls.                     *)
(***************************************************************************)
MaxExecutes == 3

\* The variants with a discrete effect, and those with an analog one.
DiscreteKinds == {"kb_press", "kb_hold", "mouse_click", "mouse_hold", "pad_button"}

AnalogKinds == {"pad_stick", "pad_trigger"}

DirectKinds == Kinds \ {"custom"}

\* A call applied its effect when it sent backend calls and the backend
\* accepted each of them.
EffectApplied(events) ==
    events # << >> /\ \A i \in 1..Len(events) : ~events[i].raised

FaultHit(f, events) ==
    f # NoFault => \E i \in 1..Len(events) : events[i].op = f /\ events[i].raised

DirectCall(op, v, f, raised, was_executing) ==
    [op |-> op, value |-> v, fault |-> f, raised |-> raised, was_executing |-> was_executing]

ActionInit ==
    /\ gestures = SubSeq(Definitions, 1, 1)
    /\ \E k \in DirectKinds : kinds = [a \in {"a1"} |-> k]
    /\ DispatcherIdle /\ EngineIdle /\ TriggerIdle /\ HoldIdle /\ DriverIdle

\* action.execute(v)
Execute ==
    \E v \in Values, f \in {NoFault} \cup FaultPoints(kinds["a1"]) :
        LET r == ActionExecute(kinds["a1"], "a1", st["a1"], backend, v, f)
        IN  /\ executes < MaxExecutes
            /\ FaultHit(f, r.events)
            /\ st' = [st EXCEPT !["a1"] = r.st]
            /\ backend' = r.backend
            /\ log' = r.events
            /\ call' = DirectCall("execute", v, f, r.raised, st["a1"].is_executing)
            /\ applied' = applied + (IF EffectApplied(r.events) THEN 1 ELSE 0)
            /\ executes' = executes + 1
            /\ UNCHANGED << active_actions, last_record, outstanding, held, last_call,
                            dispatch_raised >>
            /\ UNCHANGED << gestures, kinds, engineVars, triggerVars, holdVars, driverVars >>

\* action.release()
Release ==
    \E f \in {NoFault} \cup FaultPoints(kinds["a1"]) :
        LET r == ActionRelease(kinds["a1"], "a1", st["a1"], backend, f)
        IN  /\ FaultHit(f, r.events)
            /\ st' = [st EXCEPT !["a1"] = r.st]
            /\ backend' = r.backend
            /\ log' = r.events
            /\ call' = DirectCall("release", 0, f, r.raised, st["a1"].is_executing)
            /\ applied' = IF r.raised THEN applied ELSE 0
            /\ executes' = IF r.raised THEN executes ELSE 0
            /\ UNCHANGED << active_actions, last_record, outstanding, held, last_call,
                            dispatch_raised >>
            /\ UNCHANGED << gestures, kinds, engineVars, triggerVars, holdVars, driverVars >>

ActionNext == Execute \/ Release

ActionSpec == ActionInit /\ [][ActionNext]_vars

\* C26, as stated: for every discrete variant, the execute calls made since
\* the last release have applied the backend effect exactly once, and a
\* release of an action that is not executing sends nothing.
C26_Original ==
    [][(kinds["a1"] \in DiscreteKinds) =>
          /\ (call'.op = "execute" => applied' = 1)
          /\ (call'.op = "release" /\ ~st["a1"].is_executing) => log' = << >>]_vars

\* C26: for every discrete variant, an execute call made after the effect
\* was applied (with no release returned since) sends nothing to the
\* backend; an execute call made before that applies the effect unless the
\* backend fails during it; so the effect is applied at most once between
\* releases.  A release of an action that is not executing sends nothing.
C26_Idempotent ==
    [][(kinds["a1"] \in DiscreteKinds) =>
          /\ (call'.op = "execute" /\ applied = 1) =>
                 (log' = << >> /\ backend' = backend /\ applied' = 1)
          /\ (call'.op = "execute" /\ applied = 0) =>
                 (applied' = IF call'.fault = NoFault THEN 1 ELSE 0)
          /\ applied' \in {0, 1}
          /\ (call'.op = "release" /\ ~st["a1"].is_executing) =>
                 (log' = << >> /\ backend' = backend)]_vars

\* A third execute in a row on a discrete variant whose effect is applied.
C26_Witness ==
    /\ kinds["a1"] \in DiscreteKinds
    /\ call.op = "execute" /\ executes = MaxExecutes
    /\ applied = 1 /\ log = << >>

\* A release of a discrete variant that was not executing.
ReleaseNotExecuting ==
    /\ kinds["a1"] \in DiscreteKinds
    /\ call.op = "release" /\ ~call.was_executing /\ log = << >>

\* The axis or trigger position the device shows.
Axis(kind, b) == IF kind = "pad_stick" THEN b.pad_device.lx ELSE b.pad_device.lt

AxisRange(kind) == IF kind = "pad_stick" THEN StickRange ELSE TriggerRange

\* C27: for a gamepad stick or trigger action, every execute(value) during
\* which the backend accepts each call leaves the backend axis or trigger at
\* the value scaled from the input.
C27_AxisFollowsValue ==
    [][(kinds["a1"] \in AnalogKinds /\ call'.op = "execute" /\ call'.fault = NoFault) =>
          Axis(kinds["a1"], backend') = Scale(call'.value, AxisRange(kinds["a1"]))]_vars

\* The first execute after construction or after a release sets the axis.
FirstExecuteSetsAxis ==
    [][(/\ kinds["a1"] \in AnalogKinds /\ call'.op = "execute" /\ call'.fault = NoFault
        /\ ~st["a1"].is_executing) =>
          Axis(kinds["a1"], backend') = Scale(call'.value, AxisRange(kinds["a1"]))]_vars

(***************************************************************************)
(* A gesture whose evaluation fails on a frame, through the driver.        *)
(***************************************************************************)
CalledOn(calls, op, n) == \E j \in 1..Len(calls) : calls[j].op = op /\ calls[j].gesture = n

PersonFrame(t) == t.step = "process_frame" /\ t.frame = "person"

\* C29: on a frame on which the detect of a loaded gesture raises, the
\* gesture is treated as inactive: no execute is called for it, and when it
\* was tracked in the active map the dispatch of that frame calls release
\* for it and removes it from the map; on a later frame on which it is
\* active and not tracked, execute is called for it as on a fresh activation.
C29_DetectFailureIsInactive ==
    [][PersonFrame(tick') =>
          \A i \in 1..Len(gestures) :
              LET n == gestures[i].name
              IN  /\ tick'.reports[i] = "absent" =>
                        /\ ~CalledOn(log', "execute", n)
                        /\ ~CalledOn(log', "update", n)
                        /\ n \notin KeysOf(active_actions')
                        /\ n \in KeysOf(active_actions) => CalledOn(log', "release", n)
                  /\ (tick'.reports[i] = "active" /\ n \notin KeysOf(active_actions)) =>
                        CalledOn(log', "execute", n)]_vars

\* The detect of a tracked gesture raised and the dispatch of the frame
\* released it.
C29_Witness ==
    /\ PersonFrame(tick)
    /\ \E i \in 1..Len(gestures) :
          /\ tick.reports[i] = "absent"
          /\ CalledOn(log, "release", gestures[i].name)
          /\ gestures[i].name \notin KeysOf(active_actions)

(***************************************************************************)
(* Gesture names within an engine.                                         *)
(***************************************************************************)
\* C30: after any load_gestures call the names of the loaded gestures are
\* pairwise distinct, and every list process returns names each gesture at
\* most once.
C30_DistinctNames ==
    /\ \A i, j \in 1..Len(gestures) : i # j => gestures[i].name # gestures[j].name
    /\ \A i, j \in 1..Len(results) : i # j => results[i].name # results[j].name

(***************************************************************************)
(* The sample history of a motion_speed trigger.                           *)
(***************************************************************************)
\* The history after a sample is added to h, kept to n samples.
Pushed(h, x, n) == IF Len(h) >= n THEN Append(Tail(h), x) ELSE Append(h, x)

\* C31: for a motion_speed trigger, after every detect call the position
\* history and the time history have the same length, at most smoothing + 1;
\* a frame with the landmark there and visible adds its sample, the oldest
\* one being dropped when the history is full; a frame rejected for a
\* missing or barely visible landmark adds no sample.
C31_BoundedHistory ==
    /\ [](variant.type = "motion_speed" =>
            /\ Len(variant.t.position_history) = Len(variant.t.time_history)
            /\ Len(variant.t.position_history) <= variant.t.smoothing + 1)
    /\ [][(variant.type = "motion_speed" /\ seen'.step = "detect") =>
            IF seen'.frame.pose = "ok"
            THEN /\ variant'.t.position_history =
                        Pushed(variant.t.position_history, seen'.frame.pos,
                               variant.t.smoothing + 1)
                 /\ variant'.t.time_history =
                        Pushed(variant.t.time_history, now', variant.t.smoothing + 1)
            ELSE /\ variant'.t.position_history = variant.t.position_history
                 /\ variant'.t.time_history = variant.t.time_history]_vars

\* The history is full and its oldest sample is later than the first frame:
\* an older sample was dropped.
C31_Witness ==
    /\ variant.type = "motion_speed"
    /\ seen # NoFrame /\ seen.step = "detect" /\ seen.frame.pose = "ok"
    /\ Len(variant.t.time_history) = variant.t.smoothing + 1
    /\ Head(variant.t.time_history) >= 2
    /\ Last(variant.t.time_history) = now

(***************************************************************************)
(* Hand classification: is_hand_open and HandGestureTrigger._check_hand on *)
(* a hand landmark set.  Image coordinates grow downwards and to the       *)
(* right; the four PIP joints are at height 1, the fingertips, the thumb   *)
(* tip, the thumb IP joint and the wrist anywhere on the grid.             *)
(***************************************************************************)
MaxCoord == 1

Coords == 0..MaxCoord

\* finger_tips = [8, 12, 16, 20] and finger_pips = [6, 10, 14, 18]
FingerTips == << 8, 12, 16, 20 >>

FingerPips == << 6, 10, 14, 18 >>

\* The hand landmark sets: y of the landmarks of the four fingers, x of the
\* thumb tip (4), the thumb IP joint (3) and the wrist (0).
Hands ==
    {[y |-> [k \in {8, 12, 16, 20, 6, 10, 14, 18} |->
                IF k \in {8, 12, 16, 20} THEN tips[k] ELSE 1],
      x |-> thumb] :
        tips \in [{8, 12, 16, 20} -> Coords], thumb \in [{4, 3, 0} -> Coords]}

\* The confidence thresholds a trigger is configured with, in thousandths
\* (0.7 is the default).
Thresholds == {600, 700, 1000}

\* The loop over zip(finger_tips, finger_pips): the fingers, from the i-th
\* on, whose tip is above its PIP joint.
RECURSIVE CountExtended(_, _)
CountExtended(h, i) ==
    IF i > Len(FingerTips) THEN 0
    ELSE (IF h.y[FingerTips[i]] < h.y[FingerPips[i]] THEN 1 ELSE 0) + CountExtended(h, i + 1)

\* abs(thumb_tip.x - wrist.x) > abs(thumb_ip.x - wrist.x)
ThumbExtended(h) == Abs(h.x[4] - h.x[0]) > Abs(h.x[3] - h.x[0])

\* extended_fingers at the end of is_hand_open, extended_count at the end of
\* _calculate_confidence.
ExtendedFingers(h) == CountExtended(h, 1) + (IF ThumbExtended(h) THEN 1 ELSE 0)

OpenAbove(n) == n > 3

\* return extended_fingers >= 3
OpenAt(n) == n >= 3

is_hand_open(h) == OpenAt(ExtendedFingers(h))

\* HandGestureTrigger._calculate_confidence, in thousandths.
calculate_confidence(h, is_open) ==
    IF is_open THEN (ExtendedFingers(h) * One) \div 5
    ELSE ((5 - ExtendedFingers(h)) * One) \div 5

\* HandGestureTrigger._check_hand on a hand with landmarks: the fields after
\* the call and the returned boolean.
check_hand(t, h) ==
    LET is_open == is_hand_open(h)
        matches == IF t.gesture = "open" THEN is_open ELSE ~is_open
        value == IF matches THEN calculate_confidence(h, is_open) ELSE 0
    IN  [t |-> [t EXCEPT !.current_value = value],
         is_open |-> is_open,
         result |-> matches /\ value >= t.confidence_threshold]

ClassifyInit ==
    /\ \E g \in {"open", "closed"}, c \in Thresholds :
          variant = [type |-> "hand_gesture", gesture |-> g, confidence_threshold |-> c,
                     current_value |-> 0]
    /\ twin = NoVariant
    /\ seen = NoFrame
    /\ trigger = [debounce_frames |-> 0]
    /\ raw_hist = << >>
    /\ out_hist = << >>
    /\ HoldIdle /\ NoGestures /\ DispatcherIdle /\ EngineIdle /\ DriverIdle

\* _check_hand(hand_data) on the hand of a frame, once on each trigger.
CheckHand ==
    \E h \in Hands :
        LET r == check_hand(variant, h)
        IN  /\ seen = NoFrame
            /\ variant' = r.t
            /\ seen' = [step |-> "check_hand", hand |-> h, is_open |-> r.is_open,
                        result |-> r.result]
            /\ UNCHANGED << trigger, raw_hist, out_hist, twin >>
            /\ UNCHANGED << gestures, kinds, dispatcherVars, engineVars, holdVars,
                            driverVars >>

ClassifySpec == ClassifyInit /\ [][CheckHand]_vars

\* The fingers of a hand that are extended: the non-thumb fingers whose tip
\* is above its PIP joint, and the thumb (4) when its tip is further from the
\* wrist than its IP joint.
ExtendedSet(h) ==
    {FingerTips[i] : i \in {j \in 1..4 : h.y[FingerTips[j]] < h.y[FingerPips[j]]}}
        \cup (IF Abs(h.x[4] - h.x[0]) > Abs(h.x[3] - h.x[0]) THEN {4} ELSE {})

\* C32: a hand is classified open exactly when at least 3 of its 5 fingers
\* are extended; the confidence of a matching "open" is extended_count / 5
\* and of a matching "closed" (5 - extended_count) / 5; with the four
\* non-thumb fingertips above their PIP joints the hand is open with
\* confidence at least 0.6; and the raw result of the trigger is true exactly
\* when the classification matches the requested gesture and the confidence
\* is at least the configured threshold.
C32_HandClassification ==
    (seen # NoFrame /\ seen.step = "check_hand") =>
        LET n == Cardinality(ExtendedSet(seen.hand))
            matches == (variant.gesture = "open") <=> seen.is_open
            confidence == IF seen.is_open THEN (n * One) \div 5 ELSE ((5 - n) * One) \div 5
        IN  /\ seen.is_open <=> n >= 3
            /\ matches => variant.current_value = confidence
            /\ (\A i \in 1..4 : seen.hand.y[FingerTips[i]] < seen.hand.y[FingerPips[i]]) =>
                   (seen.is_open /\ confidence >= 600)
            /\ seen.result <=> (matches /\ confidence >= variant.confidence_threshold)

\* Exactly three fingers are extended, the thumb not among them, and a
\* trigger asking for an open hand with confidence 0.6 returned true.
C32_Witness ==
    /\ seen # NoFrame /\ seen.step = "check_hand"
    /\ Cardinality(ExtendedSet(seen.hand)) = 3
    /\ 4 \notin ExtendedSet(seen.hand)
    /\ variant.gesture = "open" /\ variant.confidence_threshold = 600
    /\ seen.is_open /\ seen.result
    /\ variant.current_value = 600

\* With the default threshold 0.7 three extended fingers are an open hand
\* that does not trigger.
OpenBelowThreshold ==
    /\ seen # NoFrame /\ seen.step = "check_hand"
    /\ Cardinality(ExtendedSet(seen.hand)) = 3
    /\ variant.gesture = "open" /\ variant.confidence_threshold = 700
    /\ seen.is_open /\ ~seen.result

(***************************************************************************)
(* A dispatcher given activation lists that name one gesture twice, each   *)
(* time with its own action instance (two loaded gestures of the same      *)
(* name).                                                                  *)
(***************************************************************************)
\* The variants of the two action instances.
RebindProfiles == {<< "mouse_hold", "mouse_hold" >>, << "mouse_hold", "mouse_click" >>}

RebindInit ==
    /\ \E p \in RebindProfiles :
          /\ gestures = << [name |-> "g1", action |-> "a1"], [name |-> "g1", action |-> "a2"] >>
          /\ kinds = [a \in Actions |-> IF a = "a1" THEN p[1] ELSE p[2]]
    /\ DispatcherIdle /\ EngineIdle /\ TriggerIdle /\ HoldIdle /\ DriverIdle

RebindSpec == RebindInit /\ [][Next]_vars

\* The action instance stored for a tracked entry is the one that was
\* executed, and every executing instance is stored for some entry.
TrackedIsExecuted ==
    /\ \A i \in 1..Len(active_actions) : st[active_actions[i].action].is_executing
    /\ \A a \in DOMAIN kinds :
          st[a].is_executing => \E i \in 1..Len(active_actions) : active_actions[i].action = a

\* C33: for mouse button actions, also when a tracked name is reported with an
\* action instance different from the stored one, the instance stored for a
\* name (on which release is called at the release edge) is the one that was
\* executed at the activation edge, and no executed instance is dropped from
\* the active map without being released.
C33_ReleaseSameInstance ==
    (\A a \in DOMAIN kinds : get_name(kinds[a]) = "mouse") => TrackedIsExecuted

\* With every name bound to one instance the same holds.
OneInstancePerName ==
    BoundTo("mouse_hold") => TrackedIsExecuted


(***************************************************************************)
(* Two gestures bound to hold-mode keyboard actions on the same key: two   *)
(* KeyboardAction instances, each with its own is_executing, pressing and   *)
(* releasing one key of the backend.                                       *)
(***************************************************************************)
SharedKeyInit ==
    /\ gestures = Definitions
    /\ kinds = [a \in Actions |-> "kb_hold"]
    /\ DispatcherIdle /\ EngineIdle /\ TriggerIdle /\ HoldIdle /\ DriverIdle

SharedKeySpec == SharedKeyInit /\ [][Next]_vars

\* Each instance is executing exactly while its gesture is tracked, and the
\* key is down exactly while some gesture is tracked.
KeyMatchesTracked(active, s, b) ==
    /\ \A i \in 1..Len(gestures) :
          s[gestures[i].action].is_executing <=> gestures[i].name \in KeysOf(active)
    /\ ("space" \in b.keys) <=> (active # << >>)

\* C34: with two gestures bound to hold-mode keyboard actions on the same
\* key, a dispatch call during which the backend accepts every key event,
\* starting with the key down exactly while some gesture is tracked, ends
\* with the key down exactly while some gesture is tracked.
C34_SharedKeyDown ==
    [][(/\ call'.op = "dispatch"
        /\ NoFaultIn(call')
        /\ KeyMatchesTracked(active_actions, st, backend))
           => (("space" \in backend'.keys) <=> (active_actions' # << >>))]_vars

\* Under the same conditions the key is never down with no gesture tracked,
\* and every execute of the call precedes every release of the call.
SharedKeyUpWhenUntracked ==
    [][(/\ call'.op = "dispatch"
        /\ NoFaultIn(call')
        /\ KeyMatchesTracked(active_actions, st, backend))
           => /\ ("space" \in backend'.keys) => (active_actions' # << >>)
              /\ \A i, j \in 1..Len(log') :
                    (log'[i].op = "release" /\ log'[j].op = "execute") => j < i]_vars


(***************************************************************************)
(* Debounced variants across early returns.                                *)
(***************************************************************************)
\* The variants whose detect passes its reading through _apply_debouncing.
DebouncedVariants ==
    {"leg_raise", "body_lean", "arm_stretch", "motion_speed", "hand_gesture",
     "pointing_gesture"}

\* The detect call passed a raw-true reading to _apply_debouncing: the
\* counter of consecutive active readings went up by one. (A raw-false
\* reading clears it, an early return leaves both counters as they are.)
RawTrueReading(t, u) == u.consecutive_active_frames = t.consecutive_active_frames + 1

\* The reading completes debounce_frames consecutive raw-true readings.
CompletesDebounce(t, u) ==
    /\ RawTrueReading(t, u)
    /\ u.consecutive_active_frames >= u.debounce_frames

\* C35: for every debounced variant, detect returns true on the frame after
\* one on which it returned false only when the frame's raw reading is true
\* and completes debounce_frames consecutive raw-true readings.
C35_ActivationCompletesDebounce ==
    [][(/\ variant.type \in DebouncedVariants
        /\ seen # NoFrame /\ seen.step = "detect" /\ ~seen.active
        /\ seen'.step = "detect" /\ seen'.active)
           => CompletesDebounce(variant.t, variant'.t)]_vars

\* The debounced state itself turns true only on such a reading; detect's
\* early returns answer false without changing it.
DebouncedStateCompletes ==
    [][(/\ variant.type \in DebouncedVariants
        /\ seen'.step = "detect"
        /\ ~variant.t.debounced_active /\ variant'.t.debounced_active)
           => CompletesDebounce(variant.t, variant'.t)]_vars


(***************************************************************************)
(* A tracked continuous action under drifting values.  Here applied holds  *)
(* the value most recently passed to the execute of the action (0 before   *)
(* the first call).                                                        *)
(***************************************************************************)
DriftInit ==
    /\ gestures = SubSeq(Definitions, 1, 1)
    /\ \E k \in ContinuousKinds : kinds = [a \in {"a1"} |-> k]
    /\ DispatcherIdle /\ EngineIdle /\ TriggerIdle /\ HoldIdle /\ DriverIdle

\* The value of the last action.execute(trigger_value) the calls made on
\* instance a (lines 31 and 54), or old when they made none.
PassedValue(old, calls, a) ==
    LET idx == {i \in 1..Len(calls) :
                   calls[i].action = a /\ calls[i].op \in {"execute", "update"}}
    IN  IF idx = {} THEN old
        ELSE calls[CHOOSE i \in idx : \A j \in idx : j <= i].arg

\* ActionDispatcher.dispatch(gesture_activations), keeping the value passed
\* to execute.
DriftDispatch ==
    \E rep \in [1..Len(gestures) -> Reports], F \in FaultChoices(kinds) :
        LET recs == ActivationList(gestures, rep)
            r == dispatch(kinds, active_actions, st, backend, recs, F)
        IN  /\ FaultsHit(F, r.log)
            /\ Record(r, [op |-> "dispatch", activations |-> recs, faults |-> F])
            /\ last_record' =
                   [n \in Names |->
                       IF ReportedActive(recs, n) THEN "active"
                       ELSE IF Reported(recs, n) THEN "inactive"
                       ELSE last_record[n]]
            /\ applied' = PassedValue(applied, r.log, "a1")
            /\ UNCHANGED executes

DriftNext == DriftDispatch \/ ReleaseAll

DriftSpec == DriftInit /\ [][DriftNext]_vars

\* C36: for a tracked continuous action, after every dispatch call the value
\* most recently passed to the action's execute differs from the value
\* stored for the name in the active map by at most 0.01.
C36_ExecutedValueFollows ==
    (call.op = "dispatch" /\ "g1" \in KeysOf(active_actions)) =>
        Abs(applied - Lookup(active_actions, "g1").value) <= Threshold

\* A dispatch call that reports a value further than 0.01 from the stored
\* one passes it to execute, and the stored value is always the reported one.
ExecutedWhenStepExceeds ==
    [][(/\ call'.op = "dispatch"
        /\ "g1" \in KeysOf(active_actions)
        /\ ReportedActive(call'.activations, "g1"))
           => /\ Lookup(active_actions', "g1").value = call'.activations[1].value
              /\ ValueChanged(Lookup(active_actions, "g1").value, call'.activations[1].value)
                    => applied' = call'.activations[1].value]_vars


(***************************************************************************)
(* Two gamepad actions on the two axes of the left stick, called directly; *)
(* both hold the one shared gamepad.                                       *)
(***************************************************************************)
PadInit ==
    /\ gestures = Definitions
    /\ kinds = [a \in Actions |-> IF a = "a1" THEN "pad_stick" ELSE "pad_stick_y"]
    /\ DispatcherIdle /\ EngineIdle /\ TriggerIdle /\ HoldIdle /\ DriverIdle

PadCall(op, a, v, f, raised) ==
    [op |-> op, action |-> a, value |-> v, fault |-> f, raised |-> raised]

\* action.execute(v) on either instance
PadExecute ==
    \E a \in Actions, v \in Values, f \in {NoFault, "pad.update"} :
        LET r == GamepadExecute(kinds[a], a, st[a], backend, v, f)
        IN  /\ FaultHit(f, r.events)
            /\ st' = [st EXCEPT ![a] = r.st]
            /\ backend' = r.backend
            /\ log' = r.events
            /\ call' = PadCall("execute", a, v, f, r.raised)
            /\ UNCHANGED << active_actions, last_record, outstanding, held, last_call,
                            dispatch_raised, applied, executes >>
            /\ UNCHANGED << gestures, kinds, engineVars, triggerVars, holdVars, driverVars >>

\* action.release() on either instance
PadRelease ==
    \E a \in Actions, f \in {NoFault, "pad.update"} :
        LET r == GamepadRelease(kinds[a], a, st[a], backend, f)
        IN  /\ FaultHit(f, r.events)
            /\ st' = [st EXCEPT ![a] = r.st]
            /\ backend' = r.backend
            /\ log' = r.events
            /\ call' = PadCall("release", a, 0, f, r.raised)
            /\ UNCHANGED << active_actions, last_record, outstanding, held, last_call,
                            dispatch_raised, applied, executes >>
            /\ UNCHANGED << gestures, kinds, engineVars, triggerVars, holdVars, driverVars >>

PadNext == PadExecute \/ PadRelease

PadSpec == PadInit /\ [][PadNext]_vars

\* The report without the control an action of the variant is bound to.
OtherControls(kind, report) ==
    CASE control(kind) = "left_stick_x" -> [report EXCEPT !.lx = 0]
      [] control(kind) = "left_stick_y" -> [report EXCEPT !.ly = 0]
      [] control(kind) = "left_trigger" -> [report EXCEPT !.lt = 0]
      [] OTHER -> [report EXCEPT !.buttons = @ \ {"a"}]

\* C37: an execute or release of a gamepad action changes only the control
\* it is bound to in the shared gamepad's report: a call on one axis of the
\* left stick leaves the other axis, the triggers and the buttons as they
\* were.
C37_OnlyOwnControl ==
    [][OtherControls(kinds[call'.action], backend'.pad_report)
          = OtherControls(kinds[call'.action], backend.pad_report)]_vars

\* A call that changes nothing outside the left stick's two axes.
OnlyLeftStick(old, new) == [new EXCEPT !.lx = 0, !.ly = 0] = [old EXCEPT !.lx = 0, !.ly = 0]

\* Every call on a stick axis leaves the triggers and the buttons as they
\* were, and an execute with nothing lost leaves the report on the device.
StickCallsStayOnStick ==
    [][/\ OnlyLeftStick(backend.pad_report, backend'.pad_report)
       /\ (~call'.raised /\ log' # << >>) => backend'.pad_device = backend'.pad_report]_vars


(***************************************************************************)
(* The driver's frame loop around one gesture whose trigger is a PoseHold  *)
(* and whose action is a hold-mode keyboard action: the camera runs, every *)
(* tick has a frame, and the pose detector finds a person on it or not.    *)
(***************************************************************************)
HoldLoopInit ==
    /\ gestures = SubSeq(Definitions, 1, 1)
    /\ kinds = [a \in {"a1"} |-> "kb_hold"]
    /\ \E d \in 1..MaxDuration : hold = InitPoseHold(d, TRUE)
    /\ now = 0
    /\ since = None
    /\ frame = << >>
    /\ is_running = TRUE
    /\ current_profile = [name |-> "p1", gestures |-> << EnabledEntry("keyboard") >>]
    /\ camera_is_running = TRUE
    /\ warning_shown = FALSE
    /\ closed = FALSE
    /\ tick = NoTick
    /\ tracked_at_load = << >>
    /\ is_processing = FALSE
    /\ frame_skip_counter = 0
    /\ dialog = FALSE
    /\ DispatcherIdle /\ EngineIdle /\ TriggerIdle

\* What a tick of the loop leaves of the dispatcher and the driver.
LoopFinish(r, f) ==
    /\ active_actions' = r.active
    /\ st' = r.st
    /\ backend' = r.backend
    /\ log' = r.log
    /\ tick' = Tick("process_frame", f)
    /\ UNCHANGED << call, last_record, outstanding, held, last_call, dispatch_raised,
                    applied, executes >>
    /\ UNCHANGED << is_running, current_profile, camera_is_running, warning_shown,
                    closed, tracked_at_load, is_processing, frame_skip_counter, dialog >>
    /\ UNCHANGED << gestures, kinds, engineVars, triggerVars >>

\* process_frame() on a tick with landmarks: process calls the trigger's
\* detect (a gesture whose detect raises is left out of the list), then
\* dispatch of the list.
LoopPerson ==
    \E f \in Frames \ {"no_landmarks"}, dt \in 1..MaxStep, F \in FaultChoices(kinds) :
        LET h == PoseHoldDetect(hold, f, now + dt)
            recs == IF f = "inner_raises" THEN << >>
                    ELSE << [name |-> "g1", action |-> "a1", is_active |-> h.is_active,
                             value |-> h.current_value] >>
            r == dispatch(kinds, active_actions, st, backend, recs, F)
        IN  /\ now + dt <= MaxTime
            /\ now' = now + dt
            /\ hold' = h
            /\ since' = IF f = "inner_raises" THEN since
                        ELSE IF f = "inner_active"
                        THEN (IF since = None THEN now' ELSE since)
                        ELSE None
            /\ frame' = IF frame = << >> THEN << f >> ELSE << frame[Len(frame)], f >>
            /\ FaultsHit(F, r.log)
            /\ LoopFinish(r, "person")

\* process_frame() on a tick without landmarks: release_all(); process is
\* not called, so no trigger's detect runs on the frame.
LoopNoPerson ==
    \E dt \in 1..MaxStep, F \in FaultChoices(kinds) :
        LET r == release_all(kinds, active_actions, st, backend, F)
        IN  /\ now + dt <= MaxTime
            /\ now' = now + dt
            /\ UNCHANGED hold
            /\ since' = None
            /\ frame' = IF frame = << >> THEN << "no_person" >>
                        ELSE << frame[Len(frame)], "no_person" >>
            /\ FaultsHit(F, r.log)
            /\ LoopFinish(r, "no_person")

HoldLoopNext == LoopPerson \/ LoopNoPerson

HoldLoopSpec == HoldLoopInit /\ [][HoldLoopNext]_vars

\* C38: in the driver's frame loop a frame without a person resets the hold
\* progress of the PoseHold trigger: on every later frame on which the
\* gesture is reported active, its inner trigger has been active for
\* duration_ms on frames with a person since the last such gap.
C38_GapResetsHold ==
    [][(LastFrame' = "inner_active" /\ hold'.is_active)
          => (since' # None /\ now' - since' >= hold.duration_ms)]_vars

\* A frame without a person releases what the gesture held and leaves the
\* trigger as it was; the hold never counts from later than the first
\* frame of the current run of inner-active frames.
GapReleasesAction ==
    [][/\ tick' = Tick("process_frame", "no_person") =>
             (active_actions' = << >> /\ hold' = hold)
       /\ (LastFrame' = "inner_active" /\ since' # None) =>
             hold'.hold_start_time <= since']_vars


(***************************************************************************)
(* A keyboard action called directly: execute, release and reset_state in  *)
(* any order.                                                              *)
(***************************************************************************)
KeyInit ==
    /\ gestures = SubSeq(Definitions, 1, 1)
    /\ \E k \in {"kb_hold", "kb_press"} : kinds = [a \in {"a1"} |-> k]
    /\ DispatcherIdle /\ EngineIdle /\ TriggerIdle /\ HoldIdle /\ DriverIdle

\* action.reset_state()
ResetState ==
    LET r == ActionResetState(kinds["a1"], "a1", st["a1"], backend, NoFault)
    IN  /\ st' = [st EXCEPT !["a1"] = r.st]
        /\ backend' = r.backend
        /\ log' = r.events
        /\ call' = DirectCall("reset_state", 0, NoFault, r.raised, st["a1"].is_executing)
        /\ UNCHANGED << active_actions, last_record, outstanding, held, last_call,
                        dispatch_raised, applied, executes >>
        /\ UNCHANGED << gestures, kinds, engineVars, triggerVars, holdVars, driverVars >>

KeyNext == Execute \/ Release \/ ResetState

KeySpec == KeyInit /\ [][KeyNext]_vars

KeyDownIffExecuting(s, b) == ("space" \in b.keys) <=> s["a1"].is_executing

\* C39: for a hold-mode keyboard action, every execute, release or
\* reset_state call during which the backend accepts every key event and
\* that starts with the key down exactly when is_executing is true ends
\* with the key down exactly when is_executing is true.
C39_KeyFollowsExecuting ==
    [][(/\ kinds["a1"] = "kb_hold"
        /\ call'.fault = NoFault
        /\ KeyDownIffExecuting(st, backend))
           => KeyDownIffExecuting(st', backend')]_vars

\* execute and release alone keep the key with is_executing, and a release
\* made while is_executing is true lifts the key.
ExecuteReleaseKeepKey ==
    [][(/\ kinds["a1"] = "kb_hold"
        /\ call'.op \in {"execute", "release"}
        /\ call'.fault = NoFault
        /\ KeyDownIffExecuting(st, backend))
           => /\ KeyDownIffExecuting(st', backend')
              /\ call'.op = "release" => "space" \notin backend'.keys]_vars


(***************************************************************************)
(* Ticks of the running driver on which no activation list is dispatched.  *)
(***************************************************************************)
\* What process_frame did on a tick that reached neither dispatch nor the
\* release_all of a frame without a person: get_frame() returned None (with
\* or without the disconnection handling), or a detector raised.
UndispatchedTicks == {"no_frame", "no_frame_stop", "detector_raised"}

\* C40: every tick of the running driver on which no activation list is
\* dispatched ends with the dispatcher's active actions released: after it
\* the active map is empty.
C40_UndispatchedTickReleases ==
    (tick.step = "process_frame" /\ tick.frame \in UndispatchedTicks) =>
        active_actions = << >>

\* Only the first tick after a disconnection, which stops the camera,
\* releases; every other such tick makes no call on the dispatcher.
OnlyDisconnectionReleases ==
    /\ [](tick = Tick("process_frame", "no_frame_stop") =>
             (active_actions = << >> /\ ~is_running))
    /\ [][(tick'.step = "process_frame" /\ tick'.frame \in {"no_frame", "detector_raised"})
             => (log' = << >> /\ UNCHANGED << active_actions, st, backend >>)]_vars

====
